---- MODULE Spec2Model ----
(***************************************************************************)
(* Ingestion pipeline of pally: ContentProcessor (src/src/lib/processor.ts) *)
(* driving the shared WebScraper (src/src/lib/scraper.ts), started by the   *)
(* POST handler of src/src/app/api/process/route.ts and observed by its GET *)
(* handler.  Every `await` of the source is a step boundary; the code       *)
(* between two awaits is one atomic step (single-threaded event loop).      *)
(***************************************************************************)
EXTENDS Integers, Sequences, FiniteSets, TLC

\* ---------------------------------------------------------------- bounds
MaxRuns == 2        \* processAllWebsites invocations in one behaviour
NHosts == 3         \* distinct well-formed URLs that may occur in a row
MaxConc == 2        \* largest value of config.scraping.maxConcurrentRequests
MaxWords == 2       \* words of a text given to generateSparseVector
MaxPoints == 2      \* points in an answer of the store
MaxBlocks == 2      \* elements of a page that hold text
MaxCalls == 2       \* calls of QdrantService.initialize that may overlap

\* processor.ts:110 is `const batchSize = 50`; the model keeps the loop and
\* scales the constant so that a run has more than one batch.
batchSize == 2

\* processor.ts:160 `document.content.length < 100`
MinContentLength == 100

Runs == 1..MaxRuns
\* content lengths an extraction may yield: both sides of the filter
ContentLens == {MinContentLength - 1, MinContentLength}
\* what a failing step throws: an Error, an Error whose message is empty,
\* or a value that is not an Error
Thrown == {"Error", "EmptyError", "NonError"}

VARIABLES
  csv,        \* the rows of the CSV source file
  conc,       \* config.scraping.maxConcurrentRequests
  delayOn,    \* config.scraping.requestDelayMs > 0
  browser,    \* WebScraper.browser: 0 = null, else the id of a browser
  live,       \* ids of the browser processes that are running
  leaked,     \* per running browser: contexts whose close() failed and that stayed open
  qInit,      \* QdrantService.isInitialized
  stats,      \* ContentProcessor.stats
  ops,        \* calls to the embedding service, sparse builder and store issued by the last step
  rpc,        \* per invocation of processAllWebsites: where it stands
  urls,       \* per invocation: cleanUrls
  bi,         \* per invocation: loop index i of processAllWebsites
  wi,         \* per invocation: loop index i of scrapeMultiple
  results,    \* per invocation: results of scrapeMultiple / scrapeResults
  ri,         \* per invocation: number of scrapeResults already handled
  tasks,      \* per invocation: the tasks of the current scrapeMultiple call
  order,      \* per invocation: positions of the current window, as settled
  cb,         \* per invocation: browser whose close() the run is awaiting
  docs,       \* per invocation and URL: the calls made for it so far
  status,     \* response of GET /api/process sent by the last step
  query,      \* the text of the search request
  vocabulary, \* a Map<string, number> that a caller passes to generateSparseVector
  sv,         \* the last generateSparseVector call: its caller, arguments and result
  docVector,  \* the sparse vector last built by processSuccessfulScrape for a document
  apiKey,     \* process.env.OPENAI_API_KEY is set
  openai,     \* the lazily constructed OpenAI client exists
  store,      \* the points of the collection, by id
  search,     \* the search request, or library call, in progress
  page,       \* the HTML page that scrapePage has loaded
  extracted,  \* what extractContent made of the page, and the document built from it
  qdrant      \* the collection on the server and the initialize / deleteCollection calls

\* the state of the ingestion pipeline
pipeVars == <<csv, conc, delayOn, browser, live, leaked, qInit, stats, ops,
              rpc, urls, bi, wi, results, ri, tasks, order, cb, docs, status>>

\* the state that the library functions and the search path work on
sparseVars == <<vocabulary, sv, docVector>>
searchVars == <<apiKey, openai, store, search>>
extractVars == <<page, extracted>>
libVars == <<query, sparseVars, searchVars, extractVars, qdrant>>

vars == <<pipeVars, libVars>>

\* what the scraper and the pipeline never write
cfgVars == <<csv, conc, delayOn>>

\* ---------------------------------------------------------- CSV cleaning
\* The url field of a raw row: h = 0 is text that does not parse as a URL,
\* h > 0 the URL of page h; t is what trails it, a sequence of "p" (a ','
\* or ';') and "sp" (white space); s = TRUE when the text contains one of
\* the sentinel texts.
Tails == {<<>>, <<"p">>, <<"p", "sp", "p">>}

Row == [h : 0..NHosts, t : Tails, s : BOOLEAN]

Url(h) == [h |-> h, t |-> <<>>, s |-> FALSE]
UrlPunct(h) == [h |-> h, t |-> <<"p">>, s |-> FALSE]
\* punctuation, white space and punctuation again, as in `https://a.test; ;`
UrlPunctGap(h) == [h |-> h, t |-> <<"p", "sp", "p">>, s |-> FALSE]
Sentinel == [h |-> 0, t |-> <<>>, s |-> TRUE]
Garbage == [h |-> 0, t |-> <<"p">>, s |-> FALSE]

\* the URL string of a row
UrlOf(row) == [h |-> row.h, t |-> row.t]

\* the source files of the model: empty; a URL, a sentinel row and the URL
\* again; a URL, the same URL with `; ;` behind it, and garbage; three URLs,
\* one of them twice
CsvFiles ==
  { <<>>,
    <<Url(1), Sentinel, Url(1)>>,
    <<Url(2), UrlPunctGap(2), Garbage>>,
    <<Url(2), Url(NHosts), UrlPunct(2), Url(1)>> }

\* String.prototype.trim, at the end of the text
RECURSIVE trim(_)
trim(t) ==
  IF t # <<>> /\ t[Len(t)] = "sp" THEN trim(SubSeq(t, 1, Len(t) - 1)) ELSE t

\* url.replace(/[,;]+$/, ''): the run of ',' and ';' that ends the text
RECURSIVE stripPunct(_)
stripPunct(t) ==
  IF t # <<>> /\ t[Len(t)] = "p" THEN stripPunct(SubSeq(t, 1, Len(t) - 1)) ELSE t

\* new URL(text) does not throw: the parser drops white space at the end,
\* and white space inside the text fails
Parses(h, t) == h # 0 /\ \A i \in 1..Len(trim(t)) : trim(t)[i] # "sp"

isValidUrl(row) == ~row.s /\ Parses(row.h, stripPunct(row.t))

cleanUrl(row) == [row EXCEPT !.t = trim(stripPunct(@))]

RECURSIVE FilterSeq(_, _)
FilterSeq(s, i) ==
  IF i > Len(s) THEN <<>>
  ELSE (IF isValidUrl(s[i]) THEN <<s[i]>> ELSE <<>>) \o FilterSeq(s, i + 1)

\* Array.from(new Set(xs)): first occurrence of each element, in order
RECURSIVE Dedup(_, _, _)
Dedup(s, i, seen) ==
  IF i > Len(s) THEN <<>>
  ELSE IF s[i] \in seen THEN Dedup(s, i + 1, seen)
       ELSE <<s[i]>> \o Dedup(s, i + 1, seen \cup {s[i]})

\* rows that loadUrlsFromCsv keeps: row.url?.trim(), then isValidUrl
LoadedRows(raw) ==
  FilterSeq([i \in 1..Len(raw) |-> [raw[i] EXCEPT !.t = trim(@)]], 1)

\* cleanUrls of processAllWebsites
CleanUrls(raw) ==
  LET loaded == LoadedRows(raw)
      cleaned == [i \in 1..Len(loaded) |-> cleanUrl(loaded[i])]
      valid == FilterSeq(cleaned, 1)
      uniq == Dedup(valid, 1, {})
  IN [i \in 1..Len(uniq) |-> UrlOf(uniq[i])]

CsvFilesOverlap == {f \in CsvFiles : Len(CleanUrls(f)) = 1}

\* ------------------------------------------------------------ data model
Min(a, b) == IF a < b THEN a ELSE b
Range(s) == {s[i] : i \in DOMAIN s}

\* ProcessingStats as reset by processAllWebsites
ZeroStats ==
  [total |-> 0, processed |-> 0, successful |-> 0, failed |-> 0,
   skipped |-> 0, endTime |-> FALSE]

\* no URL, and no domain
NoUrl == [h |-> 0, t |-> <<>>]
NoDomain == <<>>

\* new URL(url).hostname of a URL that parses
hostname(u) == <<"host", u.h>>

\* extractDomain: the hostname, or 'unknown' when new URL throws
extractDomain(u) == IF Parses(u.h, u.t) THEN hostname(u) ELSE <<"unknown">>

\* a task that has no ScrapeResult yet
NoRes ==
  [url |-> NoUrl, success |-> FALSE, doc |-> "none", len |-> 0, err |-> "none",
   title |-> "", domain |-> NoDomain]

\* error text of a caught value: error.message, or 'Unknown error'
ErrText(thrown) ==
  CASE thrown = "Error" -> "message"
    [] thrown = "EmptyError" -> ""
    [] OTHER -> "Unknown error"

\* the ScrapeResult scrapePage returns from its try block; extractContent
\* falls back to the hostname for the title, which is never empty
SuccessRes(u, n) ==
  [url |-> u, success |-> TRUE, doc |-> "success", len |-> n, err |-> "none",
   title |-> "title", domain |-> hostname(u)]

\* the ScrapeResult scrapePage returns from its catch block
FailedRes(u, thrown) ==
  [url |-> u, success |-> FALSE, doc |-> "failed", len |-> 0, err |-> ErrText(thrown),
   title |-> "", domain |-> extractDomain(u)]

\* the result scrapeMultiple builds for a rejected task
RejectedRes(thrown) ==
  [url |-> NoUrl, success |-> FALSE, doc |-> "none", len |-> 0, err |-> ErrText(thrown),
   title |-> "", domain |-> NoDomain]

\* one task of scrapeMultiple's batch.map: the scrapePage call (its local
\* `context`, 0 = null, else the browser it belongs to) and the delay
IdleTask(u) ==
  [pc |-> "idle", url |-> u, res |-> NoRes, ctx |-> 0, b |-> 0,
   failAt |-> "none", closeFailed |-> FALSE, leak |-> 0, rejected |-> "none",
   scraped |-> FALSE, delayed |-> FALSE]

\* what a run has done for one URL of its list: scrapePage calls, the
\* result processBatch took for it ("failed": success = false or no
\* document, else "document") and its content length, generateEmbedding
\* calls, upsertDocument calls and upsertDocument calls that resolved
NoCalls ==
  [scrapes |-> 0, res |-> "none", len |-> 0, embeds |-> 0, upserts |-> 0, stored |-> 0]

\* no status response
NoStatus == [sent |-> FALSE, isProcessing |-> FALSE, stats |-> ZeroStats]

\* a message: the template it is built from and the query texts it quotes
NoAnswer == [text |-> "", quotes |-> <<>>]
\* no response sent
NoResponse == [status |-> 0]
\* `filter` left undefined
NoFilter == "undefined"

\* no search request and no library call in progress; sent are the requests
\* made to the store, calls the requests made to the OpenAI client by the
\* last step
IdleSearch ==
  [caller |-> "none", pc |-> "idle", limit |-> 0, filter |-> NoFilter,
   sent |-> <<>>, points |-> <<>>, results |-> <<>>, chat |-> "none",
   answer |-> NoAnswer, failed |-> "none", response |-> NoResponse,
   calls |-> {}]

\* no page loaded, nothing extracted
NoPage ==
  [url |-> NoUrl,
   head |-> [title |-> [type |-> "string", len |-> 0],
             description |-> [type |-> "undefined"],
             og |-> [type |-> "undefined"]],
   elements |-> <<>>]
NoExtracted == [called |-> FALSE]

\* no initialize call and no deleteCollection call is running; the
\* collection does not exist on the server
NoCall == [pc |-> "idle", sent |-> <<>>, error |-> "none"]
NoQdrant ==
  [exists |-> FALSE, call |-> [c \in 1..MaxCalls |-> NoCall], del |-> "idle"]

\* no generateSparseVector call yet
NoSparse ==
  [caller |-> "none", text |-> <<>>, supplied |-> <<>>, terms |-> <<>>,
   indices |-> <<>>, values |-> <<>>]

\* ------------------------------------------------------------------ Init
\* no invocation of processAllWebsites has started
PipelineIdle ==
  /\ browser = 0
  /\ live = {}
  /\ leaked = <<>>
  /\ qInit = FALSE
  /\ stats = ZeroStats
  /\ ops = {}
  /\ rpc = [r \in Runs |-> "idle"]
  /\ urls = [r \in Runs |-> <<>>]
  /\ bi = [r \in Runs |-> 0]
  /\ wi = [r \in Runs |-> 0]
  /\ results = [r \in Runs |-> <<>>]
  /\ ri = [r \in Runs |-> 0]
  /\ tasks = [r \in Runs |-> <<>>]
  /\ order = [r \in Runs |-> <<>>]
  /\ cb = [r \in Runs |-> 0]
  /\ docs = [r \in Runs |-> <<>>]
  /\ status = NoStatus

\* generateSparseVector has not been called, no search request has been
\* made, the collection is empty and no page has been extracted
LibIdle ==
  /\ vocabulary = <<>>
  /\ sv = NoSparse
  /\ docVector = NoSparse
  /\ openai = FALSE
  /\ store = <<>>
  /\ search = IdleSearch
  /\ extracted = NoExtracted
  /\ qdrant = NoQdrant

Init ==
  /\ csv \in CsvFiles
  /\ conc \in 0..MaxConc
  /\ delayOn \in BOOLEAN
  /\ PipelineIdle
  /\ query = <<>>
  /\ apiKey = TRUE
  /\ page = NoPage
  /\ LibIdle

\* what a step of the scraper or the pipeline sends out: the calls o to the
\* collaborators, and no status response
Out(o) == ops' = o /\ status' = NoStatus /\ UNCHANGED libVars

\* ------------------------------------------------------------- WebScraper
\* positions of the window scrapeMultiple is working on: urls.slice(i, i + concurrency)
Window(r) == {k \in 1..Len(tasks[r]) : wi[r] < k /\ k <= wi[r] + conc}

\* scrapePage up to its first await: initialize() finds a browser, or starts a launch
StartedTask(t) ==
  [t EXCEPT !.pc = IF browser = 0 THEN "launching" ELSE "initialized"]

\* faulty variant: every remaining URL is started at once
StartWindowUnbounded(ts, i) ==
  [k \in 1..Len(ts) |-> IF i < k THEN StartedTask(ts[k]) ELSE ts[k]]

\* batch.map(async url => ...) for the window that starts at index i
StartWindow(ts, i) ==
  [k \in 1..Len(ts) |->
     IF i < k /\ k <= i + conc THEN StartedTask(ts[k]) ELSE ts[k]]

\* the scrapePage calls that StartWindow(ts, i) makes, counted per URL
Scraped(r, ts, i) ==
  [p \in 1..Len(docs[r]) |->
     [docs[r][p] EXCEPT !.scrapes =
        @ + Cardinality({k \in 1..Len(ts) :
                           i < k /\ k <= i + conc /\ ts[k].url = urls[r][p]})]]

\* the task after its scrapePage call has resolved (or rejected): a rejected
\* task skips the delay, as does a task when requestDelayMs is 0
AfterScrape(t) ==
  IF delayOn /\ t.rejected = "none"
  THEN [t EXCEPT !.pc = "delay", !.scraped = TRUE]
  ELSE [t EXCEPT !.pc = "settled", !.scraped = TRUE]

\* faulty variant: no finally block
FinallyWithoutClose(t) == AfterScrape(t)

\* the finally block: close the context when there is one, else resolve
Finally(t) ==
  IF t.ctx # 0 THEN [t EXCEPT !.pc = "closingctx"] ELSE AfterScrape(t)

\* faulty variant: the catch block rethrows
CaughtRethrows(t, thrown, at) ==
  Finally([t EXCEPT !.rejected = thrown, !.failAt = at])

\* the catch block of scrapePage: the failed document and result
Caught(t, thrown, at) ==
  Finally([t EXCEPT !.res = FailedRes(t.url, thrown), !.failAt = at])

SetTask(r, k, t) ==
  /\ tasks' = [tasks EXCEPT ![r][k] = t]
  /\ order' = IF t.pc = "settled" THEN [order EXCEPT ![r] = Append(@, k)] ELSE order

InTask(r, k) == rpc[r] = "scraping" /\ k \in Window(r)

\* a browser process the model does not refer to
FreshB ==
  CHOOSE b \in 1..(Cardinality(live) + 1 + 2 * Cardinality(Runs) * batchSize) :
    /\ b \notin live /\ b # browser
    /\ \A r \in Runs : b # cb[r] /\
         \A k \in DOMAIN tasks[r] : b # tasks[r][k].ctx /\ b # tasks[r][k].b

\* chromium.launch resolves: a new process runs, and this.browser is it
Launched ==
  /\ browser' = FreshB
  /\ live' = live \cup {FreshB}
  /\ leaked' = [x \in (DOMAIN leaked) \cup {FreshB} |-> IF x = FreshB THEN 0 ELSE leaked[x]]

\* a browser process ends: its contexts end with it
Kill(b) ==
  /\ live' = live \ {b}
  /\ leaked' = [x \in (DOMAIN leaked) \ {b} |-> leaked[x]]

\* initialize(): chromium.launch resolves and this.browser is assigned
LaunchOk(r, k) ==
  /\ InTask(r, k) /\ tasks[r][k].pc = "launching"
  /\ Launched
  /\ SetTask(r, k, [tasks[r][k] EXCEPT !.pc = "initialized"])
  /\ Out({})
  /\ UNCHANGED <<cfgVars, docs, qInit, stats, rpc, urls, bi, wi, results, ri, cb>>

\* after `await this.initialize()`: the null check, then newContext is issued
AfterInitialize(r, k) ==
  /\ InTask(r, k) /\ tasks[r][k].pc = "initialized"
  /\ IF browser = 0
     THEN SetTask(r, k, Caught(tasks[r][k], "Error", "browser"))
     ELSE SetTask(r, k, [tasks[r][k] EXCEPT !.pc = "newcontext", !.b = browser])
  /\ Out({})
  /\ UNCHANGED <<cfgVars, docs, browser, live, leaked, qInit, stats, rpc, urls,
                 bi, wi, results, ri, cb>>

\* browser.newContext resolves
NewContextOk(r, k) ==
  /\ InTask(r, k) /\ tasks[r][k].pc = "newcontext"
  /\ tasks[r][k].b \in live
  /\ SetTask(r, k, [tasks[r][k] EXCEPT !.pc = "page", !.ctx = tasks[r][k].b])
  /\ Out({})
  /\ UNCHANGED <<cfgVars, docs, browser, live, leaked, qInit, stats, rpc, urls,
                 bi, wi, results, ri, cb>>

\* newPage .. page.close, extractContent and the document: all succeed
PageOk(r, k) ==
  /\ InTask(r, k) /\ tasks[r][k].pc = "page"
  /\ tasks[r][k].ctx \in live
  /\ \E n \in ContentLens :
       SetTask(r, k, Finally([tasks[r][k] EXCEPT !.res = SuccessRes(tasks[r][k].url, n)]))
  /\ Out({})
  /\ UNCHANGED <<cfgVars, docs, browser, live, leaked, qInit, stats, rpc, urls,
                 bi, wi, results, ri, cb>>

\* where a step of the try block can throw
FailPoint(t) ==
  CASE t.pc = "launching" -> "launch"
    [] t.pc = "newcontext" -> "context"
    [] t.pc = "page" -> "page"
    [] OTHER -> "none"

\* a step of the try block throws (launch failure, context creation failure,
\* navigation timeout, missing or non-OK response, extraction exception)
ScrapeFail(r, k) ==
  /\ InTask(r, k) /\ FailPoint(tasks[r][k]) # "none"
  /\ \E thrown \in Thrown :
       SetTask(r, k, Caught(tasks[r][k], thrown, FailPoint(tasks[r][k])))
  /\ Out({})
  /\ UNCHANGED <<cfgVars, docs, browser, live, leaked, qInit, stats, rpc, urls,
                 bi, wi, results, ri, cb>>

\* a step of the try block throws and the catch block throws in turn: after
\* the finally block the scrapePage call, and with it the task, rejects
TaskFault(r, k) ==
  /\ InTask(r, k) /\ FailPoint(tasks[r][k]) # "none"
  /\ \E thrown \in Thrown :
       SetTask(r, k, Finally([tasks[r][k] EXCEPT !.rejected = thrown,
                                                 !.failAt = FailPoint(tasks[r][k])]))
  /\ Out({})
  /\ UNCHANGED <<cfgVars, docs, browser, live, leaked, qInit, stats, rpc, urls,
                 bi, wi, results, ri, cb>>

\* finally: context.close() resolves
CloseContextOk(r, k) ==
  /\ InTask(r, k) /\ tasks[r][k].pc = "closingctx"
  /\ SetTask(r, k, AfterScrape([tasks[r][k] EXCEPT !.ctx = 0]))
  /\ Out({})
  /\ UNCHANGED <<cfgVars, docs, browser, live, leaked, qInit, stats, rpc, urls,
                 bi, wi, results, ri, cb>>

\* finally: context.close() throws; the error is logged and swallowed, and
\* the context may or may not have been closed by the failed call
CloseContextFail(r, k) ==
  /\ InTask(r, k) /\ tasks[r][k].pc = "closingctx"
  /\ \E stays \in BOOLEAN :
       IF stays /\ tasks[r][k].ctx \in live
       THEN /\ leaked' = [leaked EXCEPT ![tasks[r][k].ctx] = @ + 1]
            /\ SetTask(r, k, AfterScrape([tasks[r][k] EXCEPT !.ctx = 0, !.closeFailed = TRUE,
                                                             !.leak = tasks[r][k].ctx]))
       ELSE /\ leaked' = leaked
            /\ SetTask(r, k, AfterScrape([tasks[r][k] EXCEPT !.ctx = 0, !.closeFailed = TRUE]))
  /\ Out({})
  /\ UNCHANGED <<cfgVars, docs, browser, live, qInit, stats, rpc, urls,
                 bi, wi, results, ri, cb>>

\* the inter-request delay of the task elapses
DelayDone(r, k) ==
  /\ InTask(r, k) /\ tasks[r][k].pc = "delay"
  /\ SetTask(r, k, [tasks[r][k] EXCEPT !.pc = "settled", !.delayed = TRUE])
  /\ Out({})
  /\ UNCHANGED <<cfgVars, docs, browser, live, leaked, qInit, stats, rpc, urls,
                 bi, wi, results, ri, cb>>

\* faulty variant: result.value is pushed whatever the status
SettledResValue(t) == t.res

\* what Promise.allSettled reports for a task, as pushed to results
SettledRes(t) == IF t.rejected # "none" THEN RejectedRes(t.rejected) ELSE t.res

\* positions of the window, ascending
RECURSIVE Positions(_, _)
Positions(lo, hi) == IF lo >= hi THEN <<>> ELSE <<lo + 1>> \o Positions(lo + 1, hi)

\* faulty variant: the results are pushed as the tasks settle
PushWindowAsSettled(r) ==
  [j \in 1..Len(order[r]) |-> SettledRes(tasks[r][order[r][j]])]

\* the loop over batchResults: one result per task of the window, pushed in
\* the order of the tasks
PushWindow(r) ==
  LET ps == Positions(wi[r], Min(wi[r] + conc, Len(tasks[r])))
  IN [j \in 1..Len(ps) |-> SettledRes(tasks[r][ps[j]])]

\* the tasks of the collected window are over: only their outcome remains
Collected(ts, r) ==
  [k \in 1..Len(ts) |->
     IF k \in Window(r)
     THEN [ts[k] EXCEPT !.b = 0, !.failAt = "none", !.closeFailed = FALSE]
     ELSE ts[k]]

\* faulty variant: the loop does not wait for the window
WindowNotAwaited(r) == TRUE

\* await Promise.allSettled(batchPromises): every task of the window settled
WindowSettled(r) == \A k \in Window(r) : tasks[r][k].pc = "settled"

\* Promise.allSettled resolves: the window's results are pushed and the loop
\* goes on with the next window, or scrapeMultiple returns
CollectWindow(r) ==
  /\ rpc[r] = "scraping"
  /\ WindowSettled(r)
  /\ results' = [results EXCEPT ![r] = @ \o PushWindow(r)]
  /\ wi' = [wi EXCEPT ![r] = @ + conc]
  /\ IF wi'[r] < Len(tasks[r])
     THEN /\ tasks' = [tasks EXCEPT ![r] = StartWindow(Collected(@, r), wi'[r])]
          /\ docs' = [docs EXCEPT ![r] = Scraped(r, tasks[r], wi'[r])]
          /\ order' = [order EXCEPT ![r] = <<>>]
          /\ UNCHANGED <<rpc, ri>>
     ELSE /\ rpc' = [rpc EXCEPT ![r] = "handling"]
          /\ ri' = [ri EXCEPT ![r] = 0]
          /\ tasks' = [tasks EXCEPT ![r] = Collected(@, r)]
          /\ UNCHANGED <<order, docs>>
  /\ Out({})
  /\ UNCHANGED <<cfgVars, browser, live, leaked, qInit, stats, urls, bi, cb>>

\* ------------------------------------------------------- ContentProcessor
Active(r) == rpc[r] \notin {"idle", "done", "failed"}

\* webScraper.close() up to its await: browser.close() is issued when a
\* browser is set
CloseIssued(r, next) ==
  /\ cb' = [cb EXCEPT ![r] = browser]
  /\ IF browser # 0 THEN Kill(browser) ELSE UNCHANGED <<live, leaked>>
  /\ rpc' = [rpc EXCEPT ![r] = next]

\* processAllWebsites up to its first await: the stats are reset and the CSV
\* is being read
Begin(r) ==
  /\ stats' = ZeroStats
  /\ rpc' = [rpc EXCEPT ![r] = "loading"]
  /\ urls' = [urls EXCEPT ![r] = <<>>]
  /\ bi' = [bi EXCEPT ![r] = 0]
  /\ Out({})
  /\ UNCHANGED <<cfgVars, docs, browser, live, leaked, qInit, wi, results, ri,
                 tasks, order, cb>>

\* POST {action: 'start'} while no invocation is executing
Start(r) ==
  /\ rpc[r] = "idle"
  /\ \A q \in Runs : (q < r => rpc[q] # "idle") /\ ~Active(q)
  /\ Begin(r)

\* POST {action: 'start'} while an earlier invocation is still executing
StartOverlapping(r) ==
  /\ rpc[r] = "idle"
  /\ \A q \in Runs : q < r => rpc[q] # "idle"
  /\ \E q \in Runs : Active(q)
  /\ Begin(r)

\* loadUrlsFromCsv resolves: clean, deduplicate, set total, and start
\* qdrantService.initialize()
Load(r) ==
  /\ rpc[r] = "loading"
  /\ urls' = [urls EXCEPT ![r] = CleanUrls(csv)]
  /\ stats' = [stats EXCEPT !.total = Len(urls'[r])]
  /\ docs' = [docs EXCEPT ![r] = [p \in 1..Len(urls'[r]) |-> NoCalls]]
  /\ rpc' = [rpc EXCEPT ![r] = "qinit"]
  /\ Out({})
  /\ UNCHANGED <<cfgVars, browser, live, leaked, qInit, bi, wi, results,
                 ri, tasks, order, cb>>

\* a fatal error reaches the catch of processAllWebsites: webScraper.close()
Fatal(r) ==
  /\ CloseIssued(r, "fclosing")
  /\ Out({})
  /\ UNCHANGED <<cfgVars, docs, browser, qInit, stats, urls, bi, wi, results,
                 ri, tasks, order>>

\* loadUrlsFromCsv rejects (file missing, stream error)
LoadFail(r) ==
  /\ rpc[r] = "loading"
  /\ Fatal(r)

\* webScraper.initialize() up to its await
ScraperInitialize(r) ==
  rpc' = [rpc EXCEPT ![r] = IF browser = 0 THEN "launching" ELSE "ready"]

\* qdrantService.initialize() resolves; webScraper.initialize() starts
QdrantInitOk(r) ==
  /\ rpc[r] = "qinit"
  /\ qInit' = TRUE
  /\ ScraperInitialize(r)
  /\ Out({})
  /\ UNCHANGED <<cfgVars, docs, browser, live, leaked, stats, urls, bi, wi,
                 results, ri, tasks, order, cb>>

\* qdrantService.initialize() throws: only an uninitialized service calls the store
QdrantInitFail(r) ==
  /\ rpc[r] = "qinit"
  /\ ~qInit
  /\ Fatal(r)

\* webScraper.initialize() of processAllWebsites: the launch resolves
RunLaunchOk(r) ==
  /\ rpc[r] = "launching"
  /\ Launched
  /\ rpc' = [rpc EXCEPT ![r] = "ready"]
  /\ Out({})
  /\ UNCHANGED <<cfgVars, docs, qInit, stats, urls, bi, wi, results, ri, tasks, order, cb>>

\* webScraper.initialize() of processAllWebsites: the launch fails
RunLaunchFail(r) ==
  /\ rpc[r] = "launching"
  /\ Fatal(r)

\* faulty variant: the slice starts at the last URL of the batch before
BatchFromPrevious(r) ==
  SubSeq(urls[r], IF bi[r] = 0 THEN 1 ELSE bi[r], Min(bi[r] + batchSize, Len(urls[r])))

\* cleanUrls.slice(i, i + batchSize)
Batch(r) == SubSeq(urls[r], bi[r] + 1, Min(bi[r] + batchSize, Len(urls[r])))

\* the batch loop of processAllWebsites: processBatch calls scrapeMultiple
\* for the next batch, or the loop is over and webScraper.close() is called
NextBatch(r) ==
  /\ rpc[r] = "ready"
  /\ IF bi[r] < Len(urls[r])
     THEN /\ tasks' = [tasks EXCEPT ![r] =
                         StartWindow([k \in 1..Len(Batch(r)) |-> IdleTask(Batch(r)[k])], 0)]
          /\ docs' = [docs EXCEPT ![r] =
                        Scraped(r, [k \in 1..Len(Batch(r)) |-> IdleTask(Batch(r)[k])], 0)]
          /\ wi' = [wi EXCEPT ![r] = 0]
          /\ results' = [results EXCEPT ![r] = <<>>]
          /\ order' = [order EXCEPT ![r] = <<>>]
          /\ rpc' = [rpc EXCEPT ![r] = "scraping"]
          /\ UNCHANGED <<live, leaked, cb>>
     ELSE /\ CloseIssued(r, "closing")
          /\ UNCHANGED <<tasks, wi, results, order, docs>>
  /\ Out({})
  /\ UNCHANGED <<cfgVars, browser, qInit, stats, urls, bi, ri>>

\* position in cleanUrls of the result the loop of processBatch takes next,
\* and of the document processSuccessfulScrape is working on
Handled(r) == bi[r] + ri[r] + 1
Embedded(r) == bi[r] + ri[r]

\* faulty variant: the filter is off by one
TooShortBelow(res) == res.len < MinContentLength - 1

\* processSuccessfulScrape: document.content.length < 100
TooShort(res) == res.len < MinContentLength

\* faulty variant: success is not looked at
HasDocumentOnly(res) == res.doc # "none"

\* processBatch: result.success && result.document
HasDocument(res) == res.success /\ res.doc # "none"

\* the loop of processBatch takes result res for a URL
Taken(d, res) ==
  [d EXCEPT !.res = IF HasDocument(res) THEN "document" ELSE "failed", !.len = res.len]

\* processBatch, one iteration for a result with success = false (or without
\* a document): processed++, failed++
HandleFailed(r) ==
  /\ rpc[r] = "handling" /\ ri[r] < Len(results[r])
  /\ LET res == results[r][ri[r] + 1] IN
       /\ ~HasDocument(res)
       /\ stats' = [stats EXCEPT !.processed = @ + 1, !.failed = @ + 1]
  /\ ri' = [ri EXCEPT ![r] = @ + 1]
  /\ docs' = [docs EXCEPT ![r][Handled(r)] = Taken(@, results[r][ri[r] + 1])]
  /\ Out({})
  /\ UNCHANGED <<cfgVars, browser, live, leaked, qInit, rpc, urls, bi, wi,
                 results, tasks, order, cb>>

\* faulty variant: a skipped document is counted as failed, too
HandleShortAlsoFailed(r) ==
  /\ rpc[r] = "handling" /\ ri[r] < Len(results[r])
  /\ LET res == results[r][ri[r] + 1] IN
       /\ HasDocument(res)
       /\ TooShort(res)
       /\ stats' = [stats EXCEPT !.processed = @ + 1, !.skipped = @ + 1, !.failed = @ + 1]
  /\ ri' = [ri EXCEPT ![r] = @ + 1]
  /\ docs' = [docs EXCEPT ![r][Handled(r)] = Taken(@, results[r][ri[r] + 1])]
  /\ Out({})
  /\ UNCHANGED <<cfgVars, browser, live, leaked, qInit, rpc, urls, bi, wi,
                 results, tasks, order, cb>>

\* processBatch, one iteration for a successful result whose content is too
\* short: processed++, then processSuccessfulScrape counts it as skipped
HandleShort(r) ==
  /\ rpc[r] = "handling" /\ ri[r] < Len(results[r])
  /\ LET res == results[r][ri[r] + 1] IN
       /\ HasDocument(res)
       /\ TooShort(res)
       /\ stats' = [stats EXCEPT !.processed = @ + 1, !.skipped = @ + 1]
  /\ ri' = [ri EXCEPT ![r] = @ + 1]
  /\ docs' = [docs EXCEPT ![r][Handled(r)] = Taken(@, results[r][ri[r] + 1])]
  /\ Out({})
  /\ UNCHANGED <<cfgVars, browser, live, leaked, qInit, rpc, urls, bi, wi,
                 results, tasks, order, cb>>

\* faulty variant: the loop of processBatch does not await
\* processSuccessfulScrape
HandleEmbedUnawaited(r) ==
  /\ rpc[r] \in {"handling", "embedding"} /\ ri[r] < Len(results[r])
  /\ LET res == results[r][ri[r] + 1] IN
       /\ HasDocument(res)
       /\ ~TooShort(res)
       /\ stats' = [stats EXCEPT !.processed = @ + 1]
  /\ ri' = [ri EXCEPT ![r] = @ + 1]
  /\ rpc' = [rpc EXCEPT ![r] = "embedding"]
  /\ docs' = [docs EXCEPT ![r][Handled(r)] =
                               [Taken(@, results[r][ri[r] + 1]) EXCEPT !.embeds = @ + 1]]
  /\ Out({"embed", "sparse"})
  /\ UNCHANGED <<cfgVars, browser, live, leaked, qInit, urls, bi, wi,
                 results, tasks, order, cb>>

\* processBatch, one iteration for a successful result with enough content:
\* processed++, then processSuccessfulScrape starts generateEmbedding and
\* builds the sparse vector
HandleEmbed(r) ==
  /\ rpc[r] = "handling" /\ ri[r] < Len(results[r])
  /\ LET res == results[r][ri[r] + 1] IN
       /\ HasDocument(res)
       /\ ~TooShort(res)
       /\ stats' = [stats EXCEPT !.processed = @ + 1]
  /\ ri' = [ri EXCEPT ![r] = @ + 1]
  /\ rpc' = [rpc EXCEPT ![r] = "embedding"]
  /\ docs' = [docs EXCEPT ![r][Handled(r)] =
                               [Taken(@, results[r][ri[r] + 1]) EXCEPT !.embeds = @ + 1]]
  /\ Out({"embed", "sparse"})
  /\ UNCHANGED <<cfgVars, browser, live, leaked, qInit, urls, bi, wi,
                 results, tasks, order, cb>>

\* faulty variant: successful is counted when the upsert is issued
EmbedOkCounted(r) ==
  /\ rpc[r] = "embedding"
  /\ rpc' = [rpc EXCEPT ![r] = "upserting"]
  /\ stats' = [stats EXCEPT !.successful = @ + 1]
  /\ docs' = [docs EXCEPT ![r][Embedded(r)].upserts = @ + 1]
  /\ Out({"upsert"})
  /\ UNCHANGED <<cfgVars, browser, live, leaked, qInit, urls, bi, wi,
                 results, ri, tasks, order, cb>>

\* generateEmbedding resolves: upsertDocument is called
EmbedOk(r) ==
  /\ rpc[r] = "embedding"
  /\ rpc' = [rpc EXCEPT ![r] = "upserting"]
  /\ docs' = [docs EXCEPT ![r][Embedded(r)].upserts = @ + 1]
  /\ Out({"upsert"})
  /\ UNCHANGED <<cfgVars, browser, live, leaked, qInit, stats, urls, bi, wi,
                 results, ri, tasks, order, cb>>

\* faulty variant: the catch of processSuccessfulScrape does not count
EmbedFailUncounted(r) ==
  /\ rpc[r] = "embedding"
  /\ rpc' = [rpc EXCEPT ![r] = "handling"]
  /\ Out({})
  /\ UNCHANGED <<cfgVars, docs, browser, live, leaked, qInit, stats, urls, bi, wi,
                 results, ri, tasks, order, cb>>

\* generateEmbedding throws: caught by processSuccessfulScrape, failed++
EmbedFail(r) ==
  /\ rpc[r] = "embedding"
  /\ stats' = [stats EXCEPT !.failed = @ + 1]
  /\ rpc' = [rpc EXCEPT ![r] = "handling"]
  /\ Out({})
  /\ UNCHANGED <<cfgVars, docs, browser, live, leaked, qInit, urls, bi, wi,
                 results, ri, tasks, order, cb>>

\* upsertDocument resolves: successful++
UpsertOk(r) ==
  /\ rpc[r] = "upserting"
  /\ stats' = [stats EXCEPT !.successful = @ + 1]
  /\ rpc' = [rpc EXCEPT ![r] = "handling"]
  /\ docs' = [docs EXCEPT ![r][Embedded(r)].stored = @ + 1]
  /\ Out({})
  /\ UNCHANGED <<cfgVars, browser, live, leaked, qInit, urls, bi, wi,
                 results, ri, tasks, order, cb>>

\* faulty variant: a failed upsert is tried again
UpsertFailRetried(r) ==
  /\ rpc[r] = "upserting" /\ docs[r][Embedded(r)].upserts < 2
  /\ docs' = [docs EXCEPT ![r][Embedded(r)].upserts = @ + 1]
  /\ Out({"upsert"})
  /\ UNCHANGED <<cfgVars, browser, live, leaked, qInit, stats, rpc, urls, bi, wi,
                 results, ri, tasks, order, cb>>

\* upsertDocument throws: caught by processSuccessfulScrape, failed++
UpsertFail(r) ==
  /\ rpc[r] = "upserting"
  /\ stats' = [stats EXCEPT !.failed = @ + 1]
  /\ rpc' = [rpc EXCEPT ![r] = "handling"]
  /\ Out({})
  /\ UNCHANGED <<cfgVars, docs, browser, live, leaked, qInit, urls, bi, wi,
                 results, ri, tasks, order, cb>>

\* faulty variant: processBatch returns before its loop has ended
BatchDoneEarly(r) ==
  /\ rpc[r] = "handling"
  /\ bi' = [bi EXCEPT ![r] = @ + batchSize]
  /\ rpc' = [rpc EXCEPT ![r] = "ready"]
  /\ Out({})
  /\ UNCHANGED <<cfgVars, docs, browser, live, leaked, qInit, stats, urls, wi,
                 results, ri, tasks, order, cb>>

\* processBatch returns: every result of the batch has been handled
BatchDone(r) ==
  /\ rpc[r] = "handling" /\ ri[r] = Len(results[r])
  /\ bi' = [bi EXCEPT ![r] = @ + batchSize]
  /\ rpc' = [rpc EXCEPT ![r] = "ready"]
  /\ Out({})
  /\ UNCHANGED <<cfgVars, docs, browser, live, leaked, qInit, stats, urls, wi,
                 results, ri, tasks, order, cb>>

\* the invocation is over: its locals are gone
Return(r) ==
  /\ cb' = [cb EXCEPT ![r] = 0]
  /\ urls' = [urls EXCEPT ![r] = <<>>]
  /\ bi' = [bi EXCEPT ![r] = 0]
  /\ wi' = [wi EXCEPT ![r] = 0]
  /\ results' = [results EXCEPT ![r] = <<>>]
  /\ ri' = [ri EXCEPT ![r] = 0]
  /\ tasks' = [tasks EXCEPT ![r] = <<>>]
  /\ order' = [order EXCEPT ![r] = <<>>]
  /\ docs' = [docs EXCEPT ![r] = <<>>]

\* webScraper.close() resolves after the batch loop: this.browser = null,
\* then endTime and duration are set and the stats are returned
CloseDone(r) ==
  /\ rpc[r] = "closing"
  /\ browser' = IF cb[r] # 0 THEN 0 ELSE browser
  /\ stats' = [stats EXCEPT !.endTime = TRUE]
  /\ rpc' = [rpc EXCEPT ![r] = "done"]
  /\ Return(r)
  /\ Out({})
  /\ UNCHANGED <<cfgVars, live, leaked, qInit>>

\* webScraper.close() resolves in the catch block: this.browser = null,
\* then the error is rethrown
FatalCloseDone(r) ==
  /\ rpc[r] = "fclosing"
  /\ browser' = IF cb[r] # 0 THEN 0 ELSE browser
  /\ rpc' = [rpc EXCEPT ![r] = "failed"]
  /\ Return(r)
  /\ Out({})
  /\ UNCHANGED <<cfgVars, live, leaked, qInit, stats>>

\* browser.close() rejects after the batch loop: close() throws before
\* `this.browser = null`, the catch of processAllWebsites calls
\* webScraper.close() again
CloseFail(r) ==
  /\ rpc[r] = "closing" /\ cb[r] # 0
  /\ Fatal(r)

\* browser.close() rejects in the catch block: its error leaves
\* processAllWebsites and this.browser keeps the browser
FatalCloseFail(r) ==
  /\ rpc[r] = "fclosing" /\ cb[r] # 0
  /\ rpc' = [rpc EXCEPT ![r] = "failed"]
  /\ Return(r)
  /\ Out({})
  /\ UNCHANGED <<cfgVars, browser, live, leaked, qInit, stats>>

\* ------------------------------------------------------------ GET handler
\* getProcessingStatus resolves with this.stats and the handler answers
Status ==
  /\ status' = [sent |-> TRUE, isProcessing |-> ~stats.endTime /\ stats.total > 0,
                stats |-> stats]
  /\ ops' = {}
  /\ UNCHANGED <<cfgVars, docs, browser, live, leaked, qInit, stats,
                 rpc, urls, bi, wi, results, ri, tasks, order, cb>>
  /\ UNCHANGED libVars

\* ------------------------------------------------------------------ Next
TaskStep(r, k) ==
  \/ AfterInitialize(r, k)
  \/ NewContextOk(r, k)
  \/ PageOk(r, k)
  \/ ScrapeFail(r, k)
  \/ CloseContextOk(r, k)
  \/ CloseContextFail(r, k)
  \/ DelayDone(r, k)

RunStep(r) ==
  \/ Load(r)
  \/ LoadFail(r)
  \/ QdrantInitOk(r)
  \/ QdrantInitFail(r)
  \/ RunLaunchOk(r)
  \/ RunLaunchFail(r)
  \/ NextBatch(r)
  \/ CollectWindow(r)
  \/ HandleFailed(r)
  \/ HandleShort(r)
  \/ HandleEmbed(r)
  \/ EmbedOk(r)
  \/ EmbedFail(r)
  \/ UpsertOk(r)
  \/ UpsertFail(r)
  \/ BatchDone(r)
  \/ CloseDone(r)
  \/ FatalCloseDone(r)
  \/ CloseFail(r)
  \/ FatalCloseFail(r)

Next ==
  \/ \E r \in Runs : Start(r)
  \/ \E r \in Runs : RunStep(r)
  \/ \E r \in Runs : \E k \in 1..batchSize : TaskStep(r, k)
  \/ Status

\* the server when start requests arrive only while no run is executing;
\* processAllWebsites launches the browser before the first scrapePage call
Spec == Init /\ [][Next]_vars

NextFault ==
  \/ Next
  \/ \E r \in Runs : \E k \in 1..batchSize : TaskFault(r, k)

\* the server of Spec when a scrapePage call may reject
SpecFault == Init /\ [][NextFault]_vars

\* overlapping invocations are explored for the source files of one URL
InitOverlap ==
  /\ Init
  /\ csv \in CsvFilesOverlap
  /\ conc \in 1..MaxConc

\* a scrapePage call finds this.browser null, and launches, only after
\* another invocation has closed the browser
NextOverlap ==
  \/ Next
  \/ \E r \in Runs : StartOverlapping(r)
  \/ \E r \in Runs : \E k \in 1..batchSize : LaunchOk(r, k)

\* the server with unrestricted start requests
SpecOverlap == InitOverlap /\ [][NextOverlap]_vars

\* one invocation of processAllWebsites, by itself
NextAlone ==
  \/ Start(1)
  \/ RunStep(1)
  \/ \E k \in 1..batchSize : TaskStep(1, k)

\* every call that the invocation or one of its scrapePage calls awaits
\* resolves or rejects in the end, and the event loop runs what is ready
Settles ==
  /\ WF_vars(RunStep(1))
  /\ \A k \in 1..batchSize : WF_vars(TaskStep(1, k))

\* the server of Spec for one invocation whose awaited calls all settle
SpecLive == Init /\ [][NextAlone]_vars /\ Settles

\* ------------------------------------------------- sparse vector builder
\* A text is a sequence of white-space separated words.
Words == {"Alpha", "beta,", "gamma", "the", "ab"}
Texts == UNION {[1..n -> Words] : n \in 0..MaxWords}

\* embedding texts of the documents that the pipeline ingests
DocTexts == {<<"Alpha", "beta,">>, <<"beta,", "gamma">>, <<"the", "gamma">>}

\* vocabulary maps that a caller may hand in: empty, ids 0..size-1, ids
\* counted from 1, and two terms on one id
SuppliedVocabularies ==
  {<<>>,
   [t \in {"alpha", "beta"} |-> IF t = "alpha" THEN 0 ELSE 1],
   [t \in {"alpha"} |-> 1],
   [t \in {"alpha", "beta"} |-> 0]}

\* String.prototype.toLowerCase
toLowerCase(w) == IF w = "Alpha" THEN "alpha" ELSE w

\* .replace(/[^\w\s]/g, ' ') followed by .split(/\s+/): the word characters
\* of a word (the empty piece a trailing blank leaves fails the length test)
wordChars(w) == IF w = "beta," THEN "beta" ELSE w

\* String.prototype.length
length(t) ==
  CASE t = "ab" -> 2
    [] t = "the" -> 3
    [] t = "beta" -> 4
    [] OTHER -> 5

stopWords ==
  {"the", "a", "an", "and", "or", "but", "in", "on", "at", "to", "for", "of",
   "with", "by", "is", "are", "was", "were", "be", "been", "have", "has",
   "had", "do", "does", "did", "will", "would", "could", "should", "may",
   "might", "can", "this", "that", "these", "those"}

isStopWord(word) == word \in stopWords

RECURSIVE tokenize(_)
tokenize(text) ==
  IF text = <<>> THEN <<>>
  ELSE LET token == wordChars(toLowerCase(Head(text)))
       IN (IF length(token) > 2 /\ length(token) < 20 /\ ~isStopWord(token)
           THEN <<token>> ELSE <<>>) \o tokenize(Tail(text))

\* termFreq: a Map iterates its keys in the order of their first insertion
termFreqKeys(tokens) == Dedup(tokens, 1, {})

\* the vocabulary argument: absent, or a Map
NoVocabulary == [given |-> FALSE, map |-> <<>>]
Given(m) == [given |-> TRUE, map |-> m]

\* a score Math.log(1 + freq) / Math.log(1 + n) is kept as the pair of its
\* arguments; it exceeds 1/100 iff (1 + freq)^100 > 1 + n
RECURSIVE PowerExceeds(_, _, _, _)
PowerExceeds(base, p, k, target) ==
  IF p > target THEN TRUE
  ELSE IF k = 0 \/ base < 2 THEN FALSE
  ELSE PowerExceeds(base, p * base, k - 1, target)

\* `score > 0.01`
AboveFloor(score) == PowerExceeds(1 + score.freq, 1, 100, 1 + score.n)

\* `let nextIndex = vocab.size`
firstIndexFromZero(vocab) == 0
firstIndex(vocab) == Cardinality(DOMAIN vocab)

\* the body of termFreq.forEach, from the i-th term on; acc carries vocab,
\* nextIndex and the arrays built so far
RECURSIVE forEachTerm(_, _, _, _)
forEachTerm(tokens, keys, i, acc) ==
  IF i > Len(keys) THEN acc
  ELSE LET term == keys[i]
           known == term \in DOMAIN acc.vocab
           index == IF known THEN acc.vocab[term] ELSE acc.nextIndex
           freq == Cardinality({k \in DOMAIN tokens : tokens[k] = term})
           score == [freq |-> freq, n |-> Len(tokens)]
           keep == AboveFloor(score)
       IN forEachTerm(tokens, keys, i + 1,
            [vocab |-> IF known THEN acc.vocab
                       ELSE [t \in DOMAIN acc.vocab \cup {term} |->
                               IF t = term THEN index ELSE acc.vocab[t]],
             nextIndex |-> IF known THEN acc.nextIndex ELSE acc.nextIndex + 1,
             terms |-> IF keep THEN Append(acc.terms, term) ELSE acc.terms,
             indices |-> IF keep THEN Append(acc.indices, index) ELSE acc.indices,
             values |-> IF keep THEN Append(acc.values, score) ELSE acc.values])

\* generateSparseVector(text, vocabulary?): the arrays returned and the
\* Map as the call leaves it; terms names the term of each entry
generateSparseVector(text, vocabularyArg) ==
  LET tokens == tokenize(text)
      vocab == IF vocabularyArg.given THEN vocabularyArg.map ELSE <<>>
  IN forEachTerm(tokens, termFreqKeys(tokens), 1,
       [vocab |-> vocab, nextIndex |-> firstIndex(vocab),
        terms |-> <<>>, indices |-> <<>>, values |-> <<>>])

\* what a call leaves in sv
SparseCall(who, text, vocabularyArg, out) ==
  [caller |-> who, text |-> text, supplied |-> vocabularyArg.map,
   terms |-> out.terms, indices |-> out.indices, values |-> out.values]

\* processSuccessfulScrape: generateSparseVector(textForEmbedding); the
\* result is what upsertDocument stores as the sparse vector of the point
IngestSparse(text) ==
  LET out == generateSparseVector(text, NoVocabulary)
  IN /\ sv' = SparseCall("ingest", text, NoVocabulary, out)
     /\ docVector' = sv'
     /\ UNCHANGED <<query, vocabulary>>
     /\ UNCHANGED <<pipeVars, searchVars, extractVars, qdrant>>

\* the hybrid search handler: generateSparseVector(query)
QuerySparse ==
  LET out == generateSparseVector(query, NoVocabulary)
  IN /\ sv' = SparseCall("query", query, NoVocabulary, out)
     /\ UNCHANGED <<query, vocabulary, docVector>>
     /\ UNCHANGED <<pipeVars, searchVars, extractVars, qdrant>>

\* a caller that keeps one Map and passes it to every call
SharedSparse(text) ==
  LET out == generateSparseVector(text, Given(vocabulary))
  IN /\ sv' = SparseCall("shared", text, Given(vocabulary), out)
     /\ vocabulary' = out.vocab
     /\ UNCHANGED <<query, docVector>>
     /\ UNCHANGED <<pipeVars, searchVars, extractVars, qdrant>>

\* a caller that passes a Map of its own
SuppliedSparse(text, m) ==
  LET out == generateSparseVector(text, Given(m))
  IN /\ sv' = SparseCall("supplied", text, Given(m), out)
     /\ UNCHANGED <<query, vocabulary, docVector>>
     /\ UNCHANGED <<pipeVars, searchVars, extractVars, qdrant>>

\* nothing of the pipeline runs
PipelineOff ==
  /\ csv = <<>>
  /\ conc = 1
  /\ delayOn = FALSE
  /\ PipelineIdle

\* the text of the request is any text
InitSparse ==
  /\ PipelineOff
  /\ query \in Texts
  /\ apiKey = TRUE
  /\ page = NoPage
  /\ LibIdle

NextSparse ==
  \/ \E text \in DocTexts : IngestSparse(text)
  \/ QuerySparse
  \/ \E text \in DocTexts \cup {query} : SharedSparse(text)
  \/ \E m \in SuppliedVocabularies : SuppliedSparse(query, m)

\* the sparse vector builder under its callers
SpecSparse == InitSparse /\ [][NextSparse]_vars

\* ------------------------------------------------------------ vector store
\* JavaScript values of a document or payload field
undefined == [type |-> "undefined"]
Str(s) == [type |-> "string", v |-> s]
Num(n) == [type |-> "number", v |-> n]
DateOf(t) == [type |-> "date", v |-> t]

\* Date.prototype.toISOString and `new Date(x)` of an ISO string or a Date
toISOString(d) == [type |-> "isostring", v |-> d.v]
newDate(x) == IF x.type = "isostring" THEN DateOf(x.v) ELSE x

\* `payload?.f || d`: d when the payload has no f, or an empty string or 0
Read(payload, f, d) ==
  IF f \notin DOMAIN payload THEN d
  ELSE LET x == payload[f]
       IN CASE x.type = "undefined" -> d
            [] x.type = "string" -> IF x.v = "" THEN d ELSE x
            [] x.type = "number" -> IF x.v = 0 THEN d ELSE x
            [] OTHER -> x

\* WebPageDocument values: a success document with a description, one whose
\* page has an empty og:description, and the document of a failed scrape
Documents ==
  {[id |-> "p1", url |-> Str("u1"), title |-> Str("t1"), content |-> Str("c1"),
    description |-> Str("d1"), domain |-> Str("h1"), scrapedAt |-> DateOf(1),
    contentLength |-> Num(120), status |-> Str("success"), error |-> undefined],
   [id |-> "p2", url |-> Str("u2"), title |-> Str("t2"), content |-> Str("c2"),
    description |-> Str(""), domain |-> Str("h2"), scrapedAt |-> DateOf(2),
    contentLength |-> Num(100), status |-> Str("success"), error |-> undefined],
   [id |-> "p3", url |-> Str("u3"), title |-> Str(""), content |-> Str(""),
    description |-> undefined, domain |-> Str("h3"), scrapedAt |-> DateOf(3),
    contentLength |-> Num(0), status |-> Str("failed"), error |-> Str("message")]}

\* what the store keeps of an object sent as JSON: a property whose value
\* is undefined is not serialized
JSON(obj) == [f \in {g \in DOMAIN obj : obj[g] # undefined} |-> obj[f]]

\* the point that upsertDocument sends (vectors left out)
upsertPointOmitsDomain(document) ==
  [id |-> document.id,
   payload |-> JSON([url |-> document.url,
                     title |-> document.title,
                     content |-> document.content,
                     description |-> document.description,
                     scrapedAt |-> toISOString(document.scrapedAt),
                     contentLength |-> document.contentLength,
                     status |-> document.status,
                     error |-> document.error])]
upsertPoint(document) ==
  [id |-> document.id,
   payload |-> JSON([url |-> document.url,
                     title |-> document.title,
                     content |-> document.content,
                     description |-> document.description,
                     domain |-> document.domain,
                     scrapedAt |-> toISOString(document.scrapedAt),
                     contentLength |-> document.contentLength,
                     status |-> document.status,
                     error |-> document.error])]

\* the mapping of a scored point to a SearchResult (searchSimilar and
\* hybridSearch use the same one); ids are uuid strings, which String() keeps
toSearchResult(result) ==
  [id |-> result.id,
   score |-> result.score,
   url |-> Read(result.payload, "url", Str("")),
   title |-> Read(result.payload, "title", Str("")),
   content |-> Read(result.payload, "content", Str("")),
   description |-> Read(result.payload, "description", Str("")),
   domain |-> Read(result.payload, "domain", Str("")),
   scrapedAt |-> newDate(Read(result.payload, "scrapedAt", DateOf(0))),
   contentLength |-> Read(result.payload, "contentLength", Num(0)),
   status |-> Read(result.payload, "status", Str("failed")),
   error |-> Read(result.payload, "error", Str(""))]

\* upsertDocument(document, ...): client.upsert with wait: true
Upsert(document) ==
  /\ store' = [id \in DOMAIN store \cup {document.id} |->
                 IF id = document.id THEN upsertPoint(document) ELSE store[id]]
  /\ UNCHANGED <<apiKey, openai, search>>
  /\ UNCHANGED <<pipeVars, query, sparseVars, extractVars, qdrant>>

\* `limit: number = 10` of searchSimilar and hybridSearch, `limit = 5` of
\* the handlers: an argument is a number or is left out
LeftOut == [given |-> FALSE, n |-> 0]
Arg(n) == [given |-> TRUE, n |-> n]
DefaultTo(arg, d) == IF arg.given THEN arg.n ELSE d
Filters == {NoFilter, "domain = h1"}

\* the request of searchSimilar: client.search
searchRequest(queryVector, limit, filter) ==
  [api |-> "search",
   prefetch |-> <<>>,
   vector |-> queryVector,
   fusion |-> "none",
   limit |-> limit,
   filter |-> filter,
   with_payload |-> TRUE]

\* the request of hybridSearch: client.query
hybridRequestSparseUnfiltered(denseVector, sparseVector, limit, filter) ==
  [api |-> "query",
   prefetch |-> <<[query |-> denseVector, using |-> "dense",
                   limit |-> IF limit * 4 > 50 THEN limit * 4 ELSE 50, filter |-> filter],
                  [query |-> sparseVector, using |-> "sparse",
                   limit |-> IF limit * 4 > 50 THEN limit * 4 ELSE 50, filter |-> NoFilter]>>,
   vector |-> <<>>,
   fusion |-> "rrf",
   limit |-> limit,
   filter |-> NoFilter,
   with_payload |-> TRUE]
hybridRequest(denseVector, sparseVector, limit, filter) ==
  [api |-> "query",
   prefetch |-> <<[query |-> denseVector, using |-> "dense",
                   limit |-> IF limit * 4 > 50 THEN limit * 4 ELSE 50, filter |-> filter],
                  [query |-> sparseVector, using |-> "sparse",
                   limit |-> IF limit * 4 > 50 THEN limit * 4 ELSE 50, filter |-> filter]>>,
   vector |-> <<>>,
   fusion |-> "rrf",
   limit |-> limit,
   filter |-> NoFilter,
   with_payload |-> TRUE]

\* the scored points with which the store may answer a request: points of
\* the collection, each once, no more than the request's limit
StoreAnswers(request) ==
  LET n == Min(Min(request.limit, MaxPoints), Cardinality(DOMAIN store))
      ids == UNION {{s \in [1..k -> DOMAIN store] :
                       \A i, j \in 1..k : i # j => s[i] # s[j]} : k \in 0..n}
  IN {[i \in DOMAIN s |-> [id |-> s[i], score |-> Num(1),
                           payload |-> store[s[i]].payload]] : s \in ids}

\* --------------------------------------------------------- search handlers
\* query values of a request body: '', a value that is not a string, and
\* two texts
NotAString == <<"#42">>
SearchQueries == {<<>>, NotAString, <<"gamma">>, <<"Alpha", "beta,">>}

\* `!query || typeof query !== 'string'`
BadQuery(q) == q = <<>> \/ q = NotAString

FixedMessage == [text |-> "I couldn't find any relevant information", quotes |-> <<>>]
\* the template of the inner catch block: `Your question was: "${query}"`
FallbackResponse(q) == [text |-> "the hybrid search is not currently available", quotes |-> <<q>>]

\* the handler's reaction to a rejection of `step`: the hybrid handler's
\* inner catch block, the dense-only handler's only catch block; a library
\* call rejects
SearchCatch(s, step) ==
  [s EXCEPT !.pc = "done", !.failed = step, !.calls = {},
            !.response =
              CASE s.caller = "hybrid" ->
                     [status |-> 200, query |-> query,
                      response |-> FallbackResponse(query), sources |-> <<>>,
                      resultsCount |-> 0, error |-> "Hybrid search not available"]
                [] s.caller = "dense" ->
                     [status |-> 500, error |-> "Failed to process search request"]
                [] OTHER -> NoResponse]

\* NextResponse.json({query, response, sources, resultsCount})
SearchAnswer(s, answer) ==
  [s EXCEPT !.pc = "done", !.answer = answer, !.calls = {},
            !.response =
              IF s.caller \in {"dense", "hybrid"}
              THEN [status |-> 200, query |-> query, response |-> answer,
                    sources |-> [i \in DOMAIN s.results |-> s.results[i].url],
                    resultsCount |-> Len(s.results)]
              ELSE NoResponse]

\* getOpenAIClient throws: no client yet and no API key
NoClient == ~openai /\ ~apiKey

\* generateChatResponse up to its first await: it returns the fixed message
\* ("fixed"), getOpenAIClient throws ("threw") or chat.completions.create
\* is called ("pending")
chatEntryClientFirst(searchResults) ==
  IF NoClient THEN "threw" ELSE "pending"
chatEntry(searchResults) ==
  IF Len(searchResults) = 0 THEN "fixed"
  ELSE IF NoClient THEN "threw" ELSE "pending"

\* the search state after generateChatResponse(query, s.results) has run to
\* its first await
EnterChat(s) ==
  LET e == chatEntry(s.results)
  IN CASE e = "fixed" -> SearchAnswer([s EXCEPT !.chat = "fixed"], FixedMessage)
       [] e = "threw" -> SearchCatch([s EXCEPT !.chat = "threw"], "answer")
       [] OTHER -> [s EXCEPT !.pc = "chat", !.chat = "pending",
                             !.calls = {"chat.completions.create"}]

\* POST /api/search: request.json(), the query test, and generateEmbedding
\* up to its first await (queries are not blank)
PostSearch(handler, limit) ==
  /\ search.pc = "idle"
  /\ LET s == [IdleSearch EXCEPT !.caller = handler, !.limit = DefaultTo(limit, 5)]
     IN IF BadQuery(query)
        THEN /\ search' = [s EXCEPT !.pc = "done",
                                     !.response = [status |-> 400,
                                       error |-> "Query is required and must be a string"]]
             /\ openai' = openai
        ELSE IF NoClient
        THEN /\ search' = SearchCatch(s, "embedding")
             /\ openai' = openai
        ELSE /\ search' = [s EXCEPT !.pc = "embedding", !.calls = {"embeddings.create"}]
             /\ openai' = TRUE
  /\ UNCHANGED <<apiKey, store>>
  /\ UNCHANGED <<pipeVars, query, sparseVars, extractVars, qdrant>>

\* embeddings.create resolves: searchSimilar / hybridSearch is called and
\* awaits initialize()
EmbeddingOk ==
  /\ search.pc = "embedding"
  /\ search' = [search EXCEPT !.pc = "initialize", !.calls = {}]
  /\ UNCHANGED <<apiKey, openai, store>>
  /\ UNCHANGED <<pipeVars, query, sparseVars, extractVars, qdrant>>

\* the call awaited rejects: embeddings.create ('Failed to generate
\* embedding'), initialize() ('Failed to connect to Qdrant database', not
\* once isInitialized is set), the request to the store, or
\* chat.completions.create ('Failed to generate response')
AwaitFail ==
  /\ search.pc \in {"embedding", "initialize", "query", "chat"}
  /\ search.pc = "initialize" => ~qInit
  /\ search' =
       CASE search.pc = "embedding" -> SearchCatch(search, "embedding")
         [] search.pc = "chat" ->
              SearchCatch([search EXCEPT !.chat = "threw"], "answer")
         [] OTHER -> SearchCatch(search, "search")
  /\ UNCHANGED <<apiKey, openai, store>>
  /\ UNCHANGED <<pipeVars, query, sparseVars, extractVars, qdrant>>

\* qdrantService.hybridSearch(dense, sparse, limit, filter) called by other
\* code than the handler
CallHybridSearch(limit, filter) ==
  /\ search.pc = "idle"
  /\ ~BadQuery(query)
  /\ search' = [IdleSearch EXCEPT !.caller = "hybridSearch", !.pc = "initialize",
                                  !.limit = DefaultTo(limit, 10), !.filter = filter]
  /\ UNCHANGED <<apiKey, openai, store>>
  /\ UNCHANGED <<pipeVars, query, sparseVars, extractVars, qdrant>>

pipeVarsButQInit ==
  <<csv, conc, delayOn, browser, live, leaked, stats, ops, rpc, urls, bi, wi,
    results, ri, tasks, order, cb, docs, status>>

\* initialize() resolves: the request goes to the store, with the embedding
\* of the query and, from hybridSearch, generateSparseVector(query)
InitializeOk ==
  /\ search.pc = "initialize"
  /\ qInit' = TRUE
  /\ LET dense == <<"embedding", query>>
         out == generateSparseVector(query, NoVocabulary)
         sparse == [indices |-> out.indices, values |-> out.values]
     IN search' = [search EXCEPT
          !.pc = "query",
          !.sent = Append(@,
             IF search.caller = "dense"
             THEN searchRequest(dense, search.limit, search.filter)
             ELSE hybridRequest(dense, sparse, search.limit, search.filter))]
  /\ UNCHANGED <<apiKey, openai, store>>
  /\ UNCHANGED <<pipeVarsButQInit, query, sparseVars, extractVars, qdrant>>

\* the store answers: the points are mapped; a handler goes on with
\* generateChatResponse, hybridSearch returns to its caller
StoreOk ==
  /\ search.pc = "query"
  /\ \E points \in StoreAnswers(search.sent[Len(search.sent)]) :
       LET s == [search EXCEPT !.points = points, !.results = [i \in DOMAIN points |->
                                            toSearchResult(points[i])]]
       IN IF s.caller = "hybridSearch"
          THEN search' = [s EXCEPT !.pc = "done"] /\ openai' = openai
          ELSE search' = EnterChat(s) /\ openai' = (openai \/ search'.chat = "pending")
  /\ UNCHANGED <<apiKey, store>>
  /\ UNCHANGED <<pipeVars, query, sparseVars, extractVars, qdrant>>

\* generateChatResponse(query, searchResults) called by other code than the
\* handlers
CallChat(points) ==
  /\ search.pc = "idle"
  /\ ~BadQuery(query)
  /\ search' = EnterChat([IdleSearch EXCEPT !.caller = "chat", !.points = points,
                                            !.results = [i \in DOMAIN points |->
                                                           toSearchResult(points[i])]])
  /\ openai' = (openai \/ search'.chat = "pending")
  /\ UNCHANGED <<apiKey, store>>
  /\ UNCHANGED <<pipeVars, query, sparseVars, extractVars, qdrant>>

\* chat.completions.create resolves
ChatOk ==
  /\ search.pc = "chat"
  /\ search' = SearchAnswer([search EXCEPT !.chat = "answered"],
                          [text |-> "completion", quotes |-> <<>>])
  /\ UNCHANGED <<apiKey, openai, store>>
  /\ UNCHANGED <<pipeVars, query, sparseVars, extractVars, qdrant>>

\* the response has been sent, the call has returned
SearchReturn ==
  /\ search.pc = "done"
  /\ search' = IdleSearch
  /\ UNCHANGED <<apiKey, openai, store>>
  /\ UNCHANGED <<pipeVars, query, sparseVars, extractVars, qdrant>>

\* the query of the requests is any query value; the API key is set or not
InitSearch ==
  /\ PipelineOff
  /\ query \in SearchQueries
  /\ apiKey \in BOOLEAN
  /\ page = NoPage
  /\ LibIdle

NextSearch ==
  \/ \E document \in Documents : Upsert(document)
  \/ \E handler \in {"dense", "hybrid"} : \E limit \in {LeftOut, Arg(1)} :
       PostSearch(handler, limit)
  \/ EmbeddingOk
  \/ AwaitFail
  \/ \E limit \in {LeftOut, Arg(1), Arg(12), Arg(13)} : \E filter \in Filters :
       CallHybridSearch(limit, filter)
  \/ InitializeOk
  \/ StoreOk
  \/ \E points \in StoreAnswers([limit |-> MaxPoints]) : CallChat(points)
  \/ ChatOk
  \/ SearchReturn

\* the search handlers and the library calls over the store
SpecSearch == InitSearch /\ [][NextSearch]_vars

\* ------------------------------------------------------ content extractor
\* A page is its <head> and the elements that hold text, in document order.
\* Of an element: the selectors that match the elements from <body> down
\* to it (path), its text, and the length of the text (white space already
\* collapsed).  Two elements may hold the same text.
Block(path, text, len) == [path |-> path, text |-> text, len |-> len]

Blocks ==
  {Block(<<"main", "p">>, "story", 10001),
   Block(<<"main", "div">>, "teaser", 100),
   Block(<<"main", "nav", "p">>, "menu", 40),
   Block(<<"nav", "ul">>, "menu", 400),
   Block(<<"article", "header", "h2">>, "byline", 15),
   Block(<<"div", "p">>, "note", 25),
   Block(<<"p">>, "menu", 10),
   Block(<<"h1">>, "headline", 12),
   Block(<<".ads">>, "offer", 50),
   Block(<<"main", "script">>, "code", 60)}

\* a string value known by its length
Text(n) == [type |-> "string", len |-> n]

\* <title>, <meta name="description"> and <meta property="og:description">
Heads ==
  {[title |-> Text(0), description |-> undefined, og |-> undefined],
   [title |-> Text(201), description |-> Text(301), og |-> undefined],
   [title |-> Text(200), description |-> Text(0), og |-> Text(300)],
   [title |-> Text(0), description |-> undefined, og |-> Text(0)]}

Pages ==
  {[url |-> [h |-> h, t |-> <<>>], head |-> head, elements |-> elements] :
     h \in 1..NHosts, head \in Heads,
     elements \in UNION {[1..n -> Blocks] : n \in 0..MaxBlocks}}

\* the length of a host name (at most 253 characters)
hostnameLength(u) == IF u.h = 1 THEN 253 ELSE 6

removedSelectors ==
  {"script", "style", "nav", "header", "footer", "aside", ".advertisement",
   ".ads", ".social-share"}

contentSelectors ==
  <<"main", "[role=\"main\"]", ".main-content", ".content", ".post-content",
    ".entry-content", "article", ".article", ".blog-post", ".page-content">>

\* $(removedSelectors).remove(): an element goes when it, or an element
\* around it, matches
RemovedSelfOnly(path) == path[Len(path)] \in removedSelectors
Removed(path) == \E i \in DOMAIN path : path[i] \in removedSelectors

\* $(selector).length > 0 after the removal
Exists(elements, selector) ==
  \E k \in DOMAIN elements : \E i \in DOMAIN elements[k].path :
    /\ elements[k].path[i] = selector
    /\ ~Removed(SubSeq(elements[k].path, 1, i))

\* the elements left whose text $(selector).text() returns
Selected(elements, selector) ==
  SelectSeq(elements, LAMBDA b : selector \in Range(b.path) /\ ~Removed(b.path))

RECURSIVE TextLength(_)
TextLength(blocks) ==
  IF blocks = <<>> THEN 0 ELSE Head(blocks).len + TextLength(Tail(blocks))

\* the loop over contentSelectors: the text of the first selector that
\* matches an element
RECURSIVE FirstRegion(_, _)
FirstRegion(elements, i) ==
  IF i > Len(contentSelectors) THEN <<>>
  ELSE IF Exists(elements, contentSelectors[i])
       THEN Selected(elements, contentSelectors[i])
       ELSE FirstRegion(elements, i + 1)

\* Array.prototype.slice(0, n)
Slice(s, n) == SubSeq(s, 1, Min(Len(s), n))

\* the elements left that $(tags) finds
Tagged(elements, tags) ==
  SelectSeq(elements, LAMBDA b : b.path[Len(b.path)] \in tags /\ ~Removed(b.path))

\* String.prototype.substring(0, n)
substringWhole(s, n) == s
substring(s, n) == [s EXCEPT !.len = Min(s.len, n)]

\* the texts of a sequence of elements as one string, with sep characters
\* between two of them (0 for .text(), 1 for .join(' '))
TextOf(blocks, sep) ==
  [type |-> "string",
   len |-> IF blocks = <<>> THEN 0 ELSE TextLength(blocks) + sep * (Len(blocks) - 1),
   texts |-> [i \in DOMAIN blocks |-> blocks[i].text]]

\* a string is truthy when it is there and not empty
NonEmpty(s) == s # undefined /\ s.len > 0

\* extractContent(html, url)
extractContent(p) ==
  LET h1 == Tagged(p.elements, {"h1"})
      title == IF NonEmpty(p.head.title) THEN p.head.title
               ELSE IF h1 # <<>> /\ Head(h1).len > 0 THEN Text(Head(h1).len)
               ELSE Text(hostnameLength(p.url))
      description == IF NonEmpty(p.head.description) THEN p.head.description
                     ELSE p.head.og
      region == FirstRegion(p.elements, 1)
      body == SelectSeq(p.elements, LAMBDA b : ~Removed(b.path))
      content == IF TextLength(region) = 0 THEN TextOf(body, 0)
                 ELSE TextOf(region, 0)
      headings == Tagged(p.elements, {"h1", "h2", "h3", "h4", "h5", "h6"})
      paragraphs == SelectSeq(Tagged(p.elements, {"p"}), LAMBDA b : b.len > 20)
      structured == TextOf(Slice(headings, 10) \o Slice(paragraphs, 20), 1)
      replaced == /\ (Len(headings) > 0 \/ Len(paragraphs) > 0)
                  /\ 10 * structured.len > 3 * content.len
  IN [title |-> substring(title, 200),
      content |-> substring(IF replaced THEN structured ELSE content, 10000),
      description |-> IF description = undefined THEN undefined
                      ELSE substring(description, 300),
      branch |-> IF replaced THEN "structured"
                 ELSE IF TextLength(region) = 0 THEN "body" ELSE "region"]

\* scrapePage after page.content(): extractContent, then the document
ExtractPage ==
  /\ ~extracted.called
  /\ LET extractedData == extractContent(page)
     IN extracted' =
          [called |-> TRUE,
           branch |-> extractedData.branch,
           document |->
             [url |-> page.url,
              title |-> extractedData.title,
              content |-> extractedData.content,
              description |-> extractedData.description,
              domain |-> hostname(page.url),
              contentLength |-> extractedData.content.len,
              status |-> "success"]]
  /\ UNCHANGED <<page>>
  /\ UNCHANGED <<pipeVars, query, sparseVars, searchVars, qdrant>>

\* the page that was loaded is any page
InitExtract ==
  /\ PipelineOff
  /\ query = <<>>
  /\ apiKey = TRUE
  /\ page \in Pages
  /\ LibIdle

\* scrapePage from the HTML of the page to the success document
SpecExtract == InitExtract /\ [][ExtractPage]_vars

\* ------------------------------------------------- QdrantService.initialize
ConnectError == "Failed to connect to Qdrant database"

\* a request of call c goes to the store
Sends(c, request) ==
  [qdrant EXCEPT !.call[c].pc = request, !.call[c].sent = Append(@, request)]

\* call c returns
Resolves(q, c) == [q EXCEPT !.call[c].pc = "returned"]

\* faulty variant: initialize() does not look at isInitialized
initializeUnguarded(c) ==
  /\ qdrant.call[c].pc = "idle"
  /\ qdrant' = Sends(c, "getCollections")
  /\ UNCHANGED <<pipeVars, query, sparseVars, searchVars, extractVars>>

\* initialize() up to its first await: it returns when isInitialized is
\* set, and asks for the collections otherwise
initialize(c) ==
  /\ qdrant.call[c].pc = "idle"
  /\ qdrant' = IF qInit THEN Resolves(qdrant, c) ELSE Sends(c, "getCollections")
  /\ UNCHANGED <<pipeVars, query, sparseVars, searchVars, extractVars>>

\* getCollections resolves: collectionExists is what the store reports;
\* createCollection or getCollection is called
GetCollectionsOk(c) ==
  /\ qdrant.call[c].pc = "getCollections"
  /\ LET collectionExists == qdrant.exists
     IN qdrant' = IF ~collectionExists THEN Sends(c, "createCollection")
                  ELSE Sends(c, "getCollection")
  /\ UNCHANGED <<pipeVars, query, sparseVars, searchVars, extractVars>>

\* createCollection resolves (the store creates a collection that does not
\* exist): isInitialized = true
CreateCollectionOk(c) ==
  /\ qdrant.call[c].pc = "createCollection"
  /\ ~qdrant.exists
  /\ qdrant' = Resolves([qdrant EXCEPT !.exists = TRUE], c)
  /\ qInit' = TRUE
  /\ UNCHANGED <<pipeVarsButQInit, query, sparseVars, searchVars, extractVars>>

\* getCollection resolves (the collection exists), with or without sparse
\* vector support: isInitialized = true
GetCollectionOk(c) ==
  /\ qdrant.call[c].pc = "getCollection"
  /\ qdrant.exists
  /\ qdrant' = Resolves(qdrant, c)
  /\ qInit' = TRUE
  /\ UNCHANGED <<pipeVarsButQInit, query, sparseVars, searchVars, extractVars>>

\* the request the call awaits rejects (a rejected createCollection may or
\* may not have created the collection): the catch block throws
InitializeThrows(c) ==
  /\ qdrant.call[c].pc \in {"getCollections", "createCollection", "getCollection"}
  /\ \E created \in BOOLEAN :
       /\ created => qdrant.call[c].pc = "createCollection" /\ ~qdrant.exists
       /\ qdrant' = [qdrant EXCEPT !.call[c].pc = "threw",
                                  !.call[c].error = ConnectError,
                                  !.exists = @ \/ created]
  /\ UNCHANGED <<pipeVars, query, sparseVars, searchVars, extractVars>>

\* the caller of call c goes on; the call is over
InitializeOver(c) ==
  /\ qdrant.call[c].pc \in {"returned", "threw"}
  /\ qdrant' = [qdrant EXCEPT !.call[c] = NoCall]
  /\ UNCHANGED <<pipeVars, query, sparseVars, searchVars, extractVars>>

\* deleteCollection() up to its await
deleteCollection ==
  /\ qdrant.del = "idle"
  /\ qdrant' = [qdrant EXCEPT !.del = "deleting"]
  /\ UNCHANGED <<pipeVars, query, sparseVars, searchVars, extractVars>>

\* client.deleteCollection resolves: isInitialized = false
DeleteCollectionOk ==
  /\ qdrant.del = "deleting"
  /\ qdrant' = [qdrant EXCEPT !.del = "idle", !.exists = FALSE]
  /\ qInit' = FALSE
  /\ UNCHANGED <<pipeVarsButQInit, query, sparseVars, searchVars, extractVars>>

\* client.deleteCollection rejects: the flag is left as it is
DeleteCollectionFail ==
  /\ qdrant.del = "deleting"
  /\ qdrant' = [qdrant EXCEPT !.del = "idle"]
  /\ UNCHANGED <<pipeVars, query, sparseVars, searchVars, extractVars>>

\* the service is new; the collection exists on the server or not
InitQdrant ==
  /\ PipelineOff
  /\ query = <<>>
  /\ apiKey = TRUE
  /\ page = NoPage
  /\ vocabulary = <<>> /\ sv = NoSparse /\ docVector = NoSparse
  /\ openai = FALSE /\ store = <<>> /\ search = IdleSearch
  /\ extracted = NoExtracted
  /\ qdrant \in {[NoQdrant EXCEPT !.exists = e] : e \in BOOLEAN}

NextQdrant ==
  \/ \E c \in 1..MaxCalls : initialize(c)
  \/ \E c \in 1..MaxCalls : GetCollectionsOk(c)
  \/ \E c \in 1..MaxCalls : CreateCollectionOk(c)
  \/ \E c \in 1..MaxCalls : GetCollectionOk(c)
  \/ \E c \in 1..MaxCalls : InitializeThrows(c)
  \/ \E c \in 1..MaxCalls : InitializeOver(c)
  \/ deleteCollection
  \/ DeleteCollectionOk
  \/ DeleteCollectionFail

\* the operations of the service call initialize, some of them at the
\* same time, and deleteCollection is called
SpecQdrant == InitQdrant /\ [][NextQdrant]_vars

\* ================================================================ claims
InFlightPcs == {"launching", "initialized", "newcontext", "page", "closingctx"}

\* scrapePage calls of run r's scrapeMultiple call that have not resolved
InFlight(r) == {k \in DOMAIN tasks[r] : tasks[r][k].pc \in InFlightPcs}

\* contexts of run r's scrapeMultiple call that no close() was called on yet
Held(r) == {k \in DOMAIN tasks[r] : tasks[r][k].ctx # 0}

\* contexts of run r's scrapeMultiple call left open by a failed close()
LeftOpen(r) == {k \in DOMAIN tasks[r] : tasks[r][k].leak \in live}

\* run r is inside processBatch, after scrapeMultiple has returned
Returned(r) == rpc[r] \in {"handling", "embedding", "upserting"}

\* C1: scrapeMultiple's results are positional: element k is the result of
\* scraping the k-th URL of its input, whatever the order of completion, and
\* the returned array has one element per input URL.
C1_InputOrder ==
  \A r \in Runs :
    /\ rpc[r] = "scraping" \/ Returned(r) =>
         \A k \in 1..Len(results[r]) :
           /\ results[r][k].url = Batch(r)[k]
           /\ results[r][k] = tasks[r][k].res
    /\ Returned(r) => Len(results[r]) = Len(Batch(r))

\* C1 witness: a returned call whose second task settled before its first
\* one, the second one with a failure
C1_Witness ==
  \E r \in Runs :
    /\ Returned(r) /\ Len(results[r]) = 2
    /\ order[r] = <<2, 1>>
    /\ ~results[r][2].success /\ results[r][1].success

WinOf(k) == (k - 1) \div conc

\* C2: no task of a later window has started while a task of an earlier
\* window is unsettled, and a settled task has finished its scrape and, when
\* the delay is configured, its delay.
C2_WindowsSequential ==
  \A r \in Runs : rpc[r] = "scraping" /\ conc >= 1 =>
    /\ \A j, k \in DOMAIN tasks[r] :
         WinOf(j) < WinOf(k) /\ tasks[r][k].pc # "idle" => tasks[r][j].pc = "settled"
    /\ \A k \in DOMAIN tasks[r] :
         tasks[r][k].pc = "settled" =>
           tasks[r][k].scraped /\ (delayOn => tasks[r][k].delayed)

\* C2 witness: with a delay configured, the second window is running after
\* the first window's task has scraped and waited
C2_Witness ==
  \E r \in Runs :
    /\ rpc[r] = "scraping" /\ conc = 1 /\ delayOn /\ Len(tasks[r]) = 2
    /\ tasks[r][1].delayed /\ tasks[r][2].pc = "page"

\* C3 (as claimed): with c >= 1, at most c scrapePage calls of a
\* scrapeMultiple call are in flight and at most c contexts created by that
\* call are open.
C3_Original ==
  \A r \in Runs : conc >= 1 =>
    /\ Cardinality(InFlight(r)) <= conc
    /\ Cardinality(Held(r)) + Cardinality(LeftOpen(r)) <= conc

\* C3 (amended): with c >= 1, at most c scrapePage calls of a scrapeMultiple
\* call are in flight, and at most c contexts created by that call are open
\* without a close() having been called on them.
C3_InFlightBounded ==
  \A r \in Runs : conc >= 1 =>
    /\ Cardinality(InFlight(r)) <= conc
    /\ Cardinality(Held(r)) <= conc

\* C3 witness: c = 1, two URLs, the second scrape holds a context
C3_Witness ==
  \E r \in Runs :
    /\ conc = 1 /\ Len(tasks[r]) = 2
    /\ tasks[r][2].pc = "page" /\ tasks[r][2].ctx # 0

\* C4: a rejected task yields {success: false, error} without a document
\* at its position, every other URL of the call is still scraped, and the
\* returned array has one result per input URL.
C4_RejectionIsolated ==
  \A r \in Runs : Returned(r) =>
    /\ Len(results[r]) = Len(Batch(r))
    /\ \A k \in DOMAIN tasks[r] :
         /\ tasks[r][k].scraped
         /\ tasks[r][k].rejected # "none" =>
              results[r][k] = [url |-> NoUrl, success |-> FALSE, doc |-> "none", len |-> 0,
                              err |-> ErrText(tasks[r][k].rejected),
                              title |-> "", domain |-> NoDomain]
         /\ tasks[r][k].rejected = "none" =>
              results[r][k] = tasks[r][k].res /\ results[r][k].doc # "none"

\* C4 witness: the first task rejected, the second URL was scraped with
\* success all the same
C4_Witness ==
  \E r \in Runs :
    /\ Returned(r) /\ Len(results[r]) = 2
    /\ tasks[r][1].rejected # "none" /\ results[r][2].success

\* a scrapePage call is over
Over(t) == t.scraped

\* C5 (as claimed): scrapePage never rejects, and after a failure at any
\* point, the close of the context included, its result is a failure.
C5_Original ==
  \A r \in Runs : \A k \in DOMAIN tasks[r] :
    Over(tasks[r][k]) =>
      /\ tasks[r][k].rejected = "none"
      /\ tasks[r][k].res.doc # "none"
      /\ tasks[r][k].failAt # "none" \/ tasks[r][k].closeFailed =>
           /\ ~tasks[r][k].res.success
           /\ tasks[r][k].res.err # "none"
           /\ tasks[r][k].res.doc = "failed"

\* C5 (amended): scrapePage never rejects; after a failure of the launch,
\* the context creation, the navigation, the response check or the
\* extraction its result is {success: false, error, failed document}; a
\* failure of context.close() alone is swallowed and leaves the result as
\* the try or catch block built it.
C5_NeverRejects ==
  \A r \in Runs : \A k \in DOMAIN tasks[r] :
    Over(tasks[r][k]) =>
      /\ tasks[r][k].rejected = "none"
      /\ tasks[r][k].res.doc # "none"
      /\ tasks[r][k].res.url = tasks[r][k].url
      /\ tasks[r][k].failAt # "none" =>
           /\ ~tasks[r][k].res.success
           /\ tasks[r][k].res.err # "none"
           /\ tasks[r][k].res.doc = "failed"
      /\ tasks[r][k].failAt = "none" /\ rpc[r] = "scraping" /\ k \in Window(r) =>
           tasks[r][k].res.success

\* C5 witness: a call that failed at context creation is over, with its
\* failed result
C5_Witness ==
  \E r \in Runs : \E k \in DOMAIN tasks[r] :
    /\ Over(tasks[r][k]) /\ tasks[r][k].failAt = "context"
    /\ tasks[r][k].res.doc = "failed"

\* C6 (as claimed): once a scrapePage call is over, its context is closed:
\* no context created by a finished call is open.
C6_Original ==
  /\ \A r \in Runs : \A k \in DOMAIN tasks[r] : Over(tasks[r][k]) => tasks[r][k].ctx = 0
  /\ \A b \in DOMAIN leaked : leaked[b] = 0

\* C6 (amended): on every exit path with a context, context.close() is
\* called and awaited before scrapePage resolves, and a context stays open
\* past its call only when that close() failed.
C6_CloseAwaited ==
  /\ [](\A r \in Runs : \A k \in DOMAIN tasks[r] : Over(tasks[r][k]) => tasks[r][k].ctx = 0)
  /\ [][\A b \in DOMAIN leaked' :
          b \in DOMAIN leaked /\ leaked'[b] > leaked[b] =>
            \E r \in Runs : \E k \in DOMAIN tasks[r] :
              /\ tasks[r][k].pc = "closingctx" /\ tasks[r][k].ctx = b
              /\ tasks'[r][k].closeFailed /\ ~tasks[r][k].closeFailed]_vars

\* C6 witness: a call that failed after its context was created is over and
\* the context was closed
C6_Witness ==
  \E r \in Runs : \E k \in DOMAIN tasks[r] :
    /\ Over(tasks[r][k]) /\ tasks[r][k].failAt = "page"
    /\ tasks[r][k].ctx = 0 /\ ~tasks[r][k].closeFailed
    /\ \A b \in DOMAIN leaked : leaked[b] = 0

\* launches of chromium that have not resolved yet
Launching ==
  Cardinality({r \in Runs : rpc[r] = "launching"})
  + Cardinality({rk \in Runs \X (1..batchSize) :
                   rk[2] \in DOMAIN tasks[rk[1]] /\ tasks[rk[1]][rk[2]].pc = "launching"})

\* C7: at most one browser process is running or being launched.
C7_OneBrowser == Cardinality(live) + Launching <= 1

\* processed minus the three outcome counters
Gap(st) == st.processed - (st.successful + st.failed + st.skipped)

\* documents between processed++ and their outcome
Outstanding == Cardinality({r \in Runs : rpc[r] \in {"embedding", "upserting"}})

\* C8 (as claimed): processed = successful + failed in every state and in
\* every status response.
C8_Original ==
  /\ stats.processed = stats.successful + stats.failed
  /\ status.stats.processed = status.stats.successful + status.stats.failed

\* C8 (amended): while invocations do not overlap, processed = successful +
\* failed + skipped, plus one while the embedding or the upsert of a
\* document is outstanding; every status response shows one of the two.
C8_ProcessedAccounted ==
  /\ Gap(stats) = Outstanding
  /\ Gap(status.stats) \in {0, 1}

\* C8 witness: a status response taken mid-run, with a skipped and a failed
\* document counted
C8_Witness ==
  /\ status.sent /\ status.isProcessing
  /\ status.stats.skipped >= 1 /\ status.stats.failed >= 1
  /\ Gap(status.stats) = 1

\* run r stands between two batches, or after the last one
AfterBatch(r) == rpc[r] = "ready" /\ bi[r] > 0

\* C9 (as claimed): after every batch, processed = successful + failed.
C9_Original ==
  \A r \in Runs : AfterBatch(r) => stats.processed = stats.successful + stats.failed

\* C9 (amended): after every batch, processed = successful + failed +
\* skipped, and processed counts every URL of the batches handled so far.
C9_AfterBatch ==
  \A r \in Runs : AfterBatch(r) =>
    /\ stats.processed = stats.successful + stats.failed + stats.skipped
    /\ stats.processed = Min(bi[r], Len(urls[r]))

\* C9 witness: after the second batch, with one document of each outcome
C9_Witness ==
  \E r \in Runs :
    /\ AfterBatch(r) /\ bi[r] > batchSize
    /\ stats.skipped >= 1 /\ stats.failed >= 1 /\ stats.successful >= 1

\* the step handles the next result of run r, a successfully scraped
\* document of less than 100 characters
HandlesShort(r) ==
  /\ rpc[r] = "handling" /\ ri[r] < Len(results[r])
  /\ ri'[r] = ri[r] + 1
  /\ HasDocument(results[r][ri[r] + 1])
  /\ results[r][ri[r] + 1].len < MinContentLength

\* C10: handling a successfully scraped document of content length < 100
\* adds one to skipped, issues no embedding call, sparse-vector build or
\* upsert, and leaves successful and failed as they are.
C10_ShortSkipped ==
  [][\A r \in Runs :
       HandlesShort(r) =>
         /\ stats'.skipped = stats.skipped + 1
         /\ ops' = {}
         /\ rpc'[r] = "handling"
         /\ stats'.successful = stats.successful
         /\ stats'.failed = stats.failed]_vars

\* C10 witness: a document of 99 characters has just been skipped
C10_Witness ==
  \E r \in Runs :
    /\ rpc[r] = "handling" /\ ri[r] >= 1
    /\ HasDocument(results[r][ri[r]]) /\ results[r][ri[r]].len = MinContentLength - 1
    /\ stats.skipped >= 1 /\ ops = {}

\* the URL at position p of run r has been handled: its result was taken
\* and nothing is outstanding for it
Done(r, p) ==
  /\ docs[r][p].res # "none"
  /\ ~(rpc[r] \in {"embedding", "upserting"} /\ p = Embedded(r))

\* the document of the URL at position p passes the minimum-content-length
\* filter
PassesFilter(d) == d.res = "document" /\ d.len >= MinContentLength

\* C11 (as claimed): a document is upserted exactly once if and only if it
\* passes the minimum-content-length filter; no document is upserted twice
\* and none that fails the filter is upserted.
C11_Original ==
  \A r \in Runs : \A p \in DOMAIN docs[r] :
    /\ docs[r][p].upserts <= 1
    /\ ~PassesFilter(docs[r][p]) => docs[r][p].upserts = 0
    /\ Done(r, p) => (docs[r][p].stored = 1 <=> PassesFilter(docs[r][p]))

\* C11 (amended): a document is upserted at most once, and only if it
\* passes the filter and its dense embedding was generated; a document that
\* passes the filter is not persisted when generateEmbedding or
\* upsertDocument throws for it.
C11_UpsertedAtMostOnce ==
  \A r \in Runs : \A p \in DOMAIN docs[r] :
    /\ docs[r][p].upserts <= 1
    /\ docs[r][p].stored <= docs[r][p].upserts
    /\ docs[r][p].upserts <= docs[r][p].embeds
    /\ docs[r][p].embeds <= 1
    /\ docs[r][p].embeds = 1 <=> PassesFilter(docs[r][p])
    /\ docs[r][p].scrapes = 0 => docs[r][p].res = "none"

\* C11 witness: a run has persisted one document, and has handled another
\* one that passed the filter and was not persisted
C11_Witness ==
  \E r \in Runs : \E p, q \in DOMAIN docs[r] :
    /\ docs[r][p].stored = 1 /\ docs[r][p].upserts = 1
    /\ Done(r, q) /\ PassesFilter(docs[r][q]) /\ docs[r][q].stored = 0
    /\ \E x \in DOMAIN docs[r] : docs[r][x].res = "document" /\ ~PassesFilter(docs[r][x])

\* the step ends the embedding or the upsert of run r's document otherwise
\* than by the upsert resolving
Threw(r) ==
  \/ rpc[r] = "embedding" /\ rpc'[r] \notin {"embedding", "upserting"}
  \/ /\ rpc[r] = "upserting" /\ rpc'[r] # "upserting"
     /\ docs'[r][Embedded(r)].stored = docs[r][Embedded(r)].stored

\* C12: when generateEmbedding or upsertDocument throws for a document,
\* failed grows by one, successful stays, and the run stays in the loop of
\* processBatch with the remaining results; a run that reaches the end of
\* its batch loop has taken the result of every URL; successful grows, by
\* one, only in the step in which an upsert resolves.
C12_FailureContained ==
  /\ [](\A r \in Runs : rpc[r] = "closing" =>
          \A p \in DOMAIN docs[r] : Done(r, p))
  /\ [][\A r \in Runs :
          /\ Threw(r) =>
               /\ stats'.failed = stats.failed + 1
               /\ stats'.successful = stats.successful
               /\ rpc'[r] = "handling"
               /\ ri'[r] = ri[r] /\ results'[r] = results[r]
               /\ bi'[r] = bi[r] /\ urls'[r] = urls[r]
          /\ stats'.successful > stats.successful =>
               /\ stats'.successful = stats.successful + 1
               /\ \E q \in Runs :
                    /\ rpc[q] = "upserting" /\ rpc'[q] = "handling"
                    /\ docs'[q][Embedded(q)].stored = 1]_vars

\* C12 witness: the run is at the end of its batch loop; in the first batch
\* an embedding or upsert threw, and a document of the second batch was
\* persisted after that
C12_Witness ==
  \E r \in Runs : \E p, q \in DOMAIN docs[r] :
    /\ rpc[r] = "closing"
    /\ p <= batchSize /\ q > batchSize
    /\ PassesFilter(docs[r][p]) /\ docs[r][p].stored = 0
    /\ docs[r][q].stored = 1
    /\ stats.failed >= 1 /\ stats.successful >= 1

\* the step takes the next result of run r, one with success = false
TakesFailed(r) ==
  /\ rpc[r] = "handling" /\ ri[r] < Len(results[r])
  /\ ri'[r] = ri[r] + 1
  /\ ~results[r][ri[r] + 1].success

\* C13: taking a scrape result with success = false, with a failed
\* document or (rejected task) without a document, adds one to failed and
\* to nothing else but processed, and issues no embedding call, sparse-vector
\* build or upsert; none is ever issued for that URL.
C13_FailedNotEmbedded ==
  /\ [](\A r \in Runs : \A p \in DOMAIN docs[r] :
          docs[r][p].res = "failed" =>
            docs[r][p].embeds = 0 /\ docs[r][p].upserts = 0)
  /\ [][\A r \in Runs :
          TakesFailed(r) =>
            /\ stats'.failed = stats.failed + 1
            /\ stats'.processed = stats.processed + 1
            /\ stats'.successful = stats.successful
            /\ stats'.skipped = stats.skipped
            /\ ops' = {}
            /\ rpc'[r] = "handling"
            /\ docs'[r][Handled(r)].res = "failed"]_vars

\* C13 witness: the batch's two results, a failed document and a rejection
\* without document, have both been taken and counted as failed
C13_Witness ==
  \E r \in Runs :
    /\ rpc[r] = "handling" /\ ri[r] = 2 /\ Len(results[r]) = 2
    /\ results[r][1].doc = "failed" /\ results[r][2].doc = "none"
    /\ ~results[r][1].success /\ ~results[r][2].success
    /\ stats.failed = 2 /\ stats.processed = 2
    /\ docs[r][1].embeds = 0 /\ docs[r][2].embeds = 0

\* the step ends run r: processAllWebsites returns its stats or rethrows
Ends(r) == rpc[r] \notin {"done", "failed"} /\ rpc'[r] \in {"done", "failed"}

\* C14: when processAllWebsites ends, by returning or by rethrowing, the
\* scraper's browser reference is null.
C14_BrowserReleased ==
  [][\A r \in Runs : Ends(r) => browser' = 0]_vars

\* the ScrapeResults that exist: those of the tasks and those collected
AllRes ==
  UNION {{tasks[r][k].res : k \in DOMAIN tasks[r]} \cup
         {results[r][k] : k \in DOMAIN results[r]} : r \in Runs}

\* C15: every document with status = failed has an empty title, empty
\* content, contentLength 0, a non-empty error message and the URL's host as
\* its domain, or "unknown" when the URL does not parse, whatever was thrown.
C15_FailedDocument ==
  \A res \in AllRes : res.doc = "failed" =>
    /\ res.title = "" /\ res.len = 0
    /\ res.err \notin {"none", ""}
    /\ res.domain = IF Parses(res.url.h, res.url.t)
                    THEN <<"host", res.url.h>> ELSE <<"unknown">>

\* a text without the ',' ';' and white space that trail it
RECURSIVE Stripped(_)
Stripped(t) ==
  IF t # <<>> /\ t[Len(t)] \in {"p", "sp"} THEN Stripped(SubSeq(t, 1, Len(t) - 1)) ELSE t

\* the URL list as C16 describes it: trailing ',' / ';' stripped, sentinel
\* rows and rows that do not parse dropped, duplicates removed in first-seen
\* order
RECURSIVE Kept(_, _)
Kept(raw, i) ==
  IF i > Len(raw) THEN <<>>
  ELSE (IF ~raw[i].s /\ raw[i].h # 0
        THEN <<[h |-> raw[i].h, t |-> Stripped(raw[i].t)]>> ELSE <<>>) \o Kept(raw, i + 1)

DescribedUrls(raw) == Dedup(Kept(raw, 1), 1, {})

\* run r has its URL list and has met no fatal error
Loaded(r) ==
  rpc[r] \in {"qinit", "launching", "ready", "scraping", "handling",
              "embedding", "upserting", "closing"}

\* C16: the list a run processes is the list described above, and
\* stats.total is its length; rows a, sentinel, a give total = 1.
C16_UrlList ==
  /\ Len(DescribedUrls(<<Url(1), Sentinel, Url(1)>>)) = 1
  /\ \A r \in Runs : Loaded(r) =>
       /\ urls[r] = DescribedUrls(csv)
       /\ stats.total = Len(urls[r])

\* C17: once a run has set stats.total it does not change until that run
\* has ended, whatever else happens meanwhile (status queries, further start
\* requests).
C17_TotalFixed ==
  [][\A r \in Runs :
       Loaded(r) /\ rpc'[r] \notin {"done", "failed"} =>
         stats'.total = stats.total]_vars

\* C18: in every state in which stats.endTime is set, every URL has been
\* handled: processed = total.
C18_EndTimeAfterBatches ==
  stats.endTime => stats.processed = stats.total

\* the batch of processAllWebsites that position p of cleanUrls falls into
BatchOf(p) == (p - 1) \div batchSize

\* C19: batches run one after the other: when a URL of a batch has been
\* passed to scrapePage, every URL of every earlier batch has been handled
\* (counted as failed, skipped, or embedded and upserted or failed in that).
C19_BatchesSequential ==
  \A r \in Runs : \A p, q \in DOMAIN docs[r] :
    BatchOf(p) < BatchOf(q) /\ docs[r][q].scrapes > 0 => Done(r, p)

\* C19 witness: a URL of the second batch is being scraped; the first batch
\* gave a persisted document and a second handled result
C19_Witness ==
  \E r \in Runs :
    /\ rpc[r] = "scraping" /\ bi[r] = batchSize
    /\ tasks[r][1].pc = "page"
    /\ docs[r][batchSize + 1].scrapes = 1
    /\ docs[r][1].stored = 1 /\ Done(r, 2)

\* C20: no retries: a run passes each URL of its list to scrapePage at most
\* once, and exactly once by the end of its batch loop, whether the scrape
\* succeeds or fails; no document is embedded or upserted a second time,
\* also after its embedding or upsert has failed.
C20_NoRetries ==
  \A r \in Runs :
    /\ \A p, q \in DOMAIN urls[r] : urls[r][p] = urls[r][q] => p = q
    /\ \A p \in DOMAIN docs[r] :
         /\ docs[r][p].scrapes <= 1
         /\ docs[r][p].res # "none" \/ rpc[r] = "closing" => docs[r][p].scrapes = 1
         /\ docs[r][p].embeds <= 1 /\ docs[r][p].upserts <= 1
         /\ Done(r, p) /\ docs[r][p].stored = 0 =>
              \A k \in DOMAIN tasks[r] :
                tasks[r][k].url = urls[r][p] => tasks[r][k].pc \in {"idle", "settled"}

\* C20 witness: at the end of the batch loop of a run of three URLs, one
\* scrape had failed and one document's embedding or upsert had failed; each
\* URL was scraped once and that document embedded once
C20_Witness ==
  \E r \in Runs :
    /\ rpc[r] = "closing" /\ Len(docs[r]) = 3
    /\ \A p \in DOMAIN docs[r] : docs[r][p].scrapes = 1
    /\ \E p, q \in DOMAIN docs[r] :
         /\ docs[r][p].res = "failed"
         /\ PassesFilter(docs[r][q]) /\ docs[r][q].stored = 0 /\ docs[r][q].embeds = 1

\* ---------------------------------------------------------------- C21
\* the index that a term has in a sparse vector
IndexIn(vec, term) == vec.indices[CHOOSE i \in DOMAIN vec.terms : vec.terms[i] = term]

\* C21: every term that occurs both in the embedding text of an ingested
\* document and in the query has, in the document's stored sparse vector,
\* the index it has in the query's sparse vector.
C21_SameIndices ==
  (docVector.caller = "ingest" /\ sv.caller = "query") =>
    \A term \in Range(tokenize(docVector.text)) \cap Range(tokenize(sv.text)) :
      /\ term \in Range(docVector.terms)
      /\ term \in Range(sv.terms)
      /\ IndexIn(docVector, term) = IndexIn(sv, term)

\* ---------------------------------------------------------------- C22
\* C22: over calls that share one vocabulary map, which starts empty, a
\* term keeps the id it has, no two terms share an id, and the terms a call
\* adds receive, in the order of their insertion, the ids from the size of
\* the map before the call upwards.
C22_VocabularyGrows ==
  [][LET old == DOMAIN vocabulary
         new == DOMAIN vocabulary' \ old
         keys == termFreqKeys(tokenize(sv'.text))
     IN /\ \A t \in old : t \in DOMAIN vocabulary' /\ vocabulary'[t] = vocabulary[t]
        /\ \A t, u \in DOMAIN vocabulary' : t # u => vocabulary'[t] # vocabulary'[u]
        /\ {vocabulary'[t] : t \in new} =
             Cardinality(old) .. (Cardinality(old) + Cardinality(new) - 1)
        /\ \A i, j \in DOMAIN keys :
             (i < j /\ keys[i] \in new /\ keys[j] \in new) =>
               vocabulary'[keys[i]] < vocabulary'[keys[j]]]_vars

\* a call on the shared map that finds a term it knows and adds a third
C22_Witness ==
  /\ sv.caller = "shared"
  /\ Range(sv.terms) \cap DOMAIN sv.supplied # {}
  /\ Cardinality(DOMAIN sv.supplied) = 2
  /\ Cardinality(DOMAIN vocabulary) = 3

\* ---------------------------------------------------------------- C23
\* C23: whatever the text and the vocabulary handed in, the arrays returned
\* have the same length, every value exceeds 0.01 and no index occurs
\* twice.
C23_WellFormedVector ==
  sv.caller # "none" =>
    /\ Len(sv.indices) = Len(sv.values)
    /\ \A i \in DOMAIN sv.values : AboveFloor(sv.values[i])
    /\ \A i, j \in DOMAIN sv.indices : i # j => sv.indices[i] # sv.indices[j]

\* ---------------------------------------------------------------- C24
\* hybridSearch has been called, by the hybrid handler or by other code
HybridCalled == search.caller \in {"hybrid", "hybridSearch"} /\ search.pc # "embedding"

\* C24: a hybridSearch call makes one request to the store: two prefetches,
\* one on the dense and one on the sparse vectors, each for
\* max(limit * 4, 50) candidates under the filter of the call, fused by
\* RRF, with the final limit of the call; what it returns are the points of
\* the store's answer, in their order, no more than limit.
C24_HybridRequest ==
  HybridCalled =>
    /\ Len(search.sent) <= 1
    /\ search.pc = "query" => Len(search.sent) = 1
    /\ Len(search.sent) = 1 =>
         LET r == search.sent[1]
         IN /\ r.api = "query"
            /\ Len(r.prefetch) = 2
            /\ r.prefetch[1].using = "dense" /\ r.prefetch[2].using = "sparse"
            /\ \A i \in 1..2 :
                 /\ r.prefetch[i].limit =
                      (IF search.limit * 4 >= 50 THEN search.limit * 4 ELSE 50)
                 /\ r.prefetch[i].filter = search.filter
            /\ r.fusion = "rrf"
            /\ r.limit = search.limit
    /\ Len(search.results) <= search.limit
    /\ Len(search.results) = Len(search.points)
    /\ \A i \in DOMAIN search.results : search.results[i].id = search.points[i].id

\* a filtered call for 13 results has returned two, in an order that is not
\* the order of the ids
C24_Witness ==
  /\ search.caller = "hybridSearch"
  /\ search.pc = "done"
  /\ search.failed = "none"
  /\ search.filter # NoFilter
  /\ search.limit = 13
  /\ Len(search.results) = 2
  /\ search.results[1].id = "p2"
  /\ search.results[2].id = "p1"

\* ---------------------------------------------------------------- C26
\* a handler has answered a request whose embedding, search or answer
\* generation failed
SearchFailed(handlers) ==
  /\ search.caller \in handlers
  /\ search.pc = "done"
  /\ search.failed \in {"embedding", "search", "answer"}

\* the response is the fallback explanation quoting q, with no sources
IsFallback(r, q) ==
  /\ r.status = 200
  /\ "response" \in DOMAIN r
  /\ q \in Range(r.response.quotes)
  /\ r.sources = <<>>
  /\ r.resultsCount = 0

\* C26: when the dense embedding, the search or the answer generation fails
\* for a valid query, the search handler answers with a fallback explanation
\* that contains the query text, with empty sources and resultsCount 0,
\* and not with an opaque error.
C26_FallbackOnFailure ==
  SearchFailed({"dense", "hybrid"}) => IsFallback(search.response, query)

\* the same, of the hybrid handler alone
HybridFallback ==
  SearchFailed({"hybrid"}) => IsFallback(search.response, query)

\* ---------------------------------------------------------------- C27
\* C27: when generateChatResponse is entered with an empty result list it
\* returns the fixed message, and the step neither constructs the OpenAI
\* client nor sends it a request.
C27_ShortCircuit ==
  [][(search.chat = "none" /\ search'.chat # "none" /\ search'.results = <<>>) =>
       /\ search'.chat = "fixed"
       /\ search'.answer = FixedMessage
       /\ search'.failed = "none"
       /\ search'.calls = {}
       /\ openai' = openai]_vars

\* generateChatResponse has returned the fixed message with no API key set
\* and no client constructed
C27_Witness ==
  /\ search.caller = "chat"
  /\ search.pc = "done"
  /\ search.chat = "fixed"
  /\ search.answer = FixedMessage
  /\ ~apiKey
  /\ ~openai

\* ---------------------------------------------------------------- C28
\* the document that was upserted under an id
DocumentOf(id) == CHOOSE d \in Documents : d.id = id
\* the SearchResults that stand for points read from the store
ReadBack == {search.results[i] : i \in DOMAIN search.results}
AlwaysSet == {"url", "title", "content", "domain", "scrapedAt", "contentLength", "status"}
Optional == {"description", "error"}

\* C28 as stated: every field of a result read back equals the field of the
\* document that was upserted, an absent description or error included.
C28_Original ==
  \A r \in ReadBack : \A f \in AlwaysSet \cup Optional : r[f] = DocumentOf(r.id)[f]

\* C28: every field of a result read back equals the field of the document
\* that was upserted, except that a description or error the document does
\* not have is read back as the empty string.
C28_RoundTrip ==
  \A r \in ReadBack :
    /\ \A f \in AlwaysSet : r[f] = DocumentOf(r.id)[f]
    /\ \A f \in Optional :
         r[f] = (IF DocumentOf(r.id)[f] = undefined THEN Str("") ELSE DocumentOf(r.id)[f])

\* read back: a document without description and a document without error
C28_Witness ==
  /\ search.pc = "done"
  /\ \E r \in ReadBack : DocumentOf(r.id).description = undefined /\ r.error # Str("")
  /\ \E r \in ReadBack : DocumentOf(r.id).error = undefined /\ r.description # Str("")

\* ---------------------------------------------------------------- C29
\* an element that is, or lies inside, a non-content element
InNonContent(b) == Range(b.path) \cap removedSelectors # {}
\* the texts that occur in the page outside every non-content element
ContentTexts == {b.text : b \in {e \in Range(page.elements) : ~InNonContent(e)}}
\* the texts that occur only inside non-content elements
NonContentOnly == {b.text : b \in Range(page.elements)} \ ContentTexts

\* C29: whichever branch produced it, the extracted content holds no text
\* that occurs in the page only inside script, style, nav, header, footer,
\* aside or ad/social elements.
C29_NoRemovedText ==
  extracted.called =>
    Range(extracted.document.content.texts) \cap NonContentOnly = {}

\* a page with a <main> region and a separate, larger <nav>: the content is
\* the text of the region
C29_Witness ==
  /\ extracted.called
  /\ extracted.branch = "region"
  /\ \E b \in Range(page.elements) : b.path[1] = "nav" /\ b.text \in NonContentOnly
  /\ \E b \in Range(page.elements) :
       b.path[1] = "main" /\ b.text \in Range(extracted.document.content.texts)

\* ---------------------------------------------------------------- C30
\* C30: a success document has a title of at most 200, a content of at
\* most 10000 and, when it has one, a description of at most 300
\* characters; its contentLength is the length of its content and its
\* domain the host of its URL.
C30_DocumentLimits ==
  extracted.called =>
    LET d == extracted.document
    IN /\ d.status = "success"
       /\ d.title.len <= 200
       /\ d.content.len <= 10000
       /\ d.description # undefined => d.description.len <= 300
       /\ d.contentLength = d.content.len
       /\ d.domain = <<"host", d.url.h>>

\* title, content and description were all cut
C30_Witness ==
  /\ extracted.called
  /\ page.head.title.len > 200 /\ extracted.document.title.len = 200
  /\ page.head.description.len > 300 /\ extracted.document.description.len = 300
  /\ extracted.document.content.len = 10000
  /\ extracted.document.contentLength = 10000

\* ---------------------------------------------------------------- C31
\* the step increments a counter of the stats
Counts ==
  \/ stats'.processed > stats.processed \/ stats'.successful > stats.successful
  \/ stats'.failed > stats.failed \/ stats'.skipped > stats.skipped

\* run r is at a point of processBatch or processSuccessfulScrape from which
\* its next step may count
MayCount(r) == rpc[r] \in {"handling", "embedding", "upserting"}

\* C31: the counters of the stats are those of one run: processed never
\* exceeds total, and a step that counts is a step of the only run that is
\* handling results, also when a second start request arrives while an
\* invocation is running.
C31_StatsOwned ==
  /\ [](stats.processed <= stats.total)
  /\ [][Counts => Cardinality({r \in Runs : MayCount(r)}) = 1]_vars

\* ---------------------------------------------------------------- C32
\* the browsers whose close() the step issues
Closed == live \ live'

\* C32: browser.close() is issued only when no scrapePage call of any run
\* stands between the creation of its context and the close of that context.
C32_NoCloseInFlight ==
  [][\A b \in Closed : \A r \in Runs : \A k \in Held(r) : tasks[r][k].ctx # b]_vars

\* ---------------------------------------------------------------- C33
\* the step in which processAllWebsites returns its stats
Returns(r) == rpc[r] # "done" /\ rpc'[r] = "done"

\* no other invocation has started since run r started
Alone(r) == \A q \in Runs : q > r => rpc[q] = "idle"

\* C33: whenever every result taken so far has been fully handled (no
\* embedding or upsert is outstanding), processed = successful + failed +
\* skipped; in a run that no other invocation overlaps processed <= total,
\* and processed = total when that run returns.
C33_Accounting ==
  /\ [](Outstanding = 0 => Gap(stats) = 0)
  /\ [](\A r \in Runs : Active(r) /\ Alone(r) /\ (\A q \in Runs : q < r => ~Active(q)) =>
          stats.processed <= stats.total)
  /\ [][\A r \in Runs :
          Returns(r) /\ Alone(r) /\ (\A q \in Runs : q < r => ~Active(q)) =>
            stats'.processed = stats'.total]_vars

\* ---------------------------------------------------------------- C34
\* C34: a status response reports isProcessing = true only while an
\* invocation of processAllWebsites is executing; after a run has returned,
\* or thrown a fatal error after setting total, it reports false.
C34_IsProcessing ==
  status.sent /\ status.isProcessing => \E r \in Runs : Active(r)

\* ---------------------------------------------------------------- C35
\* C35: for every URL list and every concurrency limit 0, 1, 2, ... a call
\* of scrapeMultiple returns and an invocation of processAllWebsites ends,
\* when every call they await settles.
C35_Terminates ==
  /\ (rpc[1] = "scraping") ~> (rpc[1] = "handling")
  /\ (rpc[1] = "loading") ~> (rpc[1] \in {"done", "failed"})

\* the same for the concurrency limits 1, 2, ...
TerminatesWhenPositive ==
  /\ (conc >= 1 /\ rpc[1] = "scraping") ~> (rpc[1] = "handling")
  /\ (conc >= 1 /\ rpc[1] = "loading") ~> (rpc[1] \in {"done", "failed"})

\* ---------------------------------------------------------------- C36
\* the step issues generateEmbedding, or upsertDocument, for the document of
\* the URL at position p of run r
IssuesEmbed(r, p) ==
  p \in DOMAIN docs'[r] /\ docs'[r][p].embeds > docs[r][p].embeds
IssuesUpsert(r, p) ==
  p \in DOMAIN docs'[r] /\ docs'[r][p].upserts > docs[r][p].upserts

\* C36: within a run, generateEmbedding and upsertDocument are issued only
\* while no scrapePage call of the run is in flight (every task of its
\* scrapeMultiple call has settled); generateEmbedding is issued only while
\* no document's embedding or upsert is outstanding, and upsertDocument only
\* for the one document whose embedding was outstanding.
C36_Backpressure ==
  /\ [](\A r \in Runs : rpc[r] \in {"embedding", "upserting"} =>
          \A k \in DOMAIN tasks[r] : tasks[r][k].pc = "settled")
  /\ [][\A r \in Runs : \A p \in DOMAIN docs[r] :
          /\ IssuesEmbed(r, p) =>
               /\ InFlight(r) = {}
               /\ rpc[r] = "handling" /\ rpc'[r] = "embedding"
               /\ p = Embedded(r)'
          /\ IssuesUpsert(r, p) =>
               /\ InFlight(r) = {}
               /\ rpc[r] = "embedding" /\ rpc'[r] = "upserting"
               /\ p = Embedded(r)]_vars

\* C36 witness: the upsert of the batch's second document is outstanding,
\* after the first one was persisted and both scrapes had settled
C36_Witness ==
  \E r \in Runs :
    /\ rpc[r] = "upserting" /\ ri[r] = 2 /\ Len(tasks[r]) = 2
    /\ docs[r][Embedded(r) - 1].stored = 1
    /\ docs[r][Embedded(r)].upserts = 1 /\ docs[r][Embedded(r)].stored = 0
    /\ \A k \in DOMAIN tasks[r] : tasks[r][k].pc = "settled"

\* ---------------------------------------------------------------- C37
\* the step is the start of call c of initialize, a request of call c to
\* the store, or the throw of call c
Enters(c) == qdrant.call[c].pc = "idle" /\ qdrant'.call[c].pc # "idle"
Requests(c, request) ==
  /\ Len(qdrant'.call[c].sent) = Len(qdrant.call[c].sent) + 1
  /\ qdrant'.call[c].sent[Len(qdrant'.call[c].sent)] = request
Raises(c) == qdrant.call[c].pc # "threw" /\ qdrant'.call[c].pc = "threw"

\* C37: a call of initialize made while isInitialized is set returns
\* without a request to the store, and the flag, once set by a call whose
\* requests all resolved, is cleared only by deleteCollection resolving; a
\* call made while the flag is not set asks the store; a call in which a
\* request fails raises 'Failed to connect to Qdrant database' and does not
\* set the flag; createCollection is requested only when getCollections
\* has reported the collection absent.
C37_InitializeOnce ==
  [][/\ \A c \in 1..MaxCalls :
          /\ Enters(c) /\ qInit =>
               /\ qdrant'.call[c].pc = "returned"
               /\ qdrant'.call[c].sent = <<>>
          /\ Enters(c) /\ ~qInit => qdrant'.call[c].sent = <<"getCollections">>
          /\ Raises(c) =>
               /\ qdrant'.call[c].error = "Failed to connect to Qdrant database"
               /\ qInit' = qInit
          /\ Requests(c, "createCollection") =>
               qdrant.call[c].pc = "getCollections" /\ ~qdrant.exists
          /\ qdrant'.call[c].pc = "returned" /\ qdrant.call[c].pc # "returned" => qInit'
     /\ qInit' /\ ~qInit =>
          \E c \in 1..MaxCalls :
            /\ qdrant'.call[c].pc = "returned" /\ Len(qdrant.call[c].sent) = 2
            /\ qdrant'.exists
     /\ qInit /\ ~qInit' => qdrant.del = "deleting" /\ ~qdrant'.exists]_vars

\* C37 witness: with the flag set and the collection created by the
\* service, one call has returned without a request and another call, made
\* before the flag was set, has thrown
C37_Witness ==
  \E c, d \in 1..MaxCalls :
    /\ qInit /\ qdrant.exists
    /\ qdrant.call[c].pc = "returned" /\ qdrant.call[c].sent = <<>>
    /\ qdrant.call[d].pc = "threw"
    /\ qdrant.call[d].sent = <<"getCollections", "createCollection">>
====
